---- MODULE Spec2Model ----
(***************************************************************************)
(* Model of the boltradar repository analysis service.                     *)
(*                                                                         *)
(* The repository holds two variants of the analyze-repository edge        *)
(* function (src/unnamed/part_000, the variant with the bolt.new badge     *)
(* check and the AI-driven verdict, and src/unnamed/part_001, the variant  *)
(* with the heuristic-driven verdict) and the React client                 *)
(* (src/src/App.tsx).  The variable impl says which variant serves.        *)
(*                                                                         *)
(* Conventions:                                                            *)
(*  - JavaScript numbers that can carry one decimal digit (likelihood)     *)
(*    are kept in tenths: Num(65) is 65, Num(65) + 5 is 65.5.              *)
(*  - A JavaScript string is a sequence of pieces (TLA+ strings); a JSON   *)
(*    string value that the code inspects (parseInt) is kept character by  *)
(*    character.                                                           *)
(*  - Instants are [day, ms]: days relative to 2025-05-31 (UTC) and the    *)
(*    millisecond within the day; commit dates are milliseconds since the  *)
(*    midnight (UTC) of the first commit's day.                            *)
(***************************************************************************)
EXTENDS Integers, Sequences, FiniteSets, TLC

VARIABLES
    impl,             \* which variant of the edge function serves
    pc,               \* position of the handler / of the function under analysis
    repoUrl,          \* the request body's repoUrl
    env,              \* Deno.env: which credentials are configured
    repoData,         \* GitHubRepo returned by the repository fetch
    commits,          \* GitHubCommit[] returned by the commit-list fetch
    eligibility,      \* result of checkHackathonEligibility
    patterns,         \* result of analyzeCommitPatterns
    repoFiles,        \* what the contents API answers for each candidate file
    hasBoltNewBadge,  \* result of checkBoltNewBadge
    aiReply,          \* what the Gemini call answered
    aiAnalysis,       \* result of analyzeWithGemini
    response,         \* the HTTP response of the handler
    calls,            \* collaborator calls issued so far, in order
    app,              \* the state of the App component: repoUrl, isAnalyzing, result, error
    invocations       \* the client's analyze-repository invocations: started, outstanding

vars == <<impl, pc, repoUrl, env, repoData, commits, eligibility, patterns,
          repoFiles, hasBoltNewBadge, aiReply, aiAnalysis, response, calls,
          app, invocations>>

Impls == {"part_000", "part_001"}

None == [none |-> TRUE]

\* the outcome of a call that throws instead of returning
Thrown == [threw |-> TRUE]

(***************************************************************************)
(* Bounds of the model.                                                    *)
(***************************************************************************)
MaxCommits == 3      \* longest commit list enumerated element by element
MaxInvocations == 3  \* analyses the user starts in one run of the client
MaxSkew == 8         \* creation instants tried: cutoff - MaxSkew .. cutoff + MaxSkew ms

(***************************************************************************)
(* Numbers, strings.                                                       *)
(***************************************************************************)
Num(n) == 10 * n

IsInteger(x) == x % 10 = 0

Min(a, b) == IF a < b THEN a ELSE b

Max(a, b) == IF a > b THEN a ELSE b

msPerDay == 24 * 60 * 60 * 1000

msPerHour == 60 * 60 * 1000

(***************************************************************************)
(* Date: new Date(string) gives a time value or NaN (Invalid Date).        *)
(***************************************************************************)
NaNDate == [nan |-> TRUE, day |-> 0, ms |-> 0]

\* An ISO-8601 date string denoting the instant day/ms.
IsoString(day, ms) == [kind |-> "iso", day |-> day, ms |-> ms]

\* A string that is no date ("", "yesterday", a missing field).
GarbageString == [kind |-> "garbage", day |-> 0, ms |-> 0]

NewDate(s) ==
    IF s.kind = "iso" THEN [nan |-> FALSE, day |-> s.day, ms |-> s.ms]
    ELSE NaNDate

\* a < b on Date objects: ToNumber of both; any comparison with NaN is false.
DateLess(a, b) ==
    /\ ~a.nan
    /\ ~b.nan
    /\ \/ a.day < b.day
       \/ a.day = b.day /\ a.ms < b.ms

\* Date.prototype.toDateString: "Invalid Date" for NaN, never throws.
toDateString(d) ==
    IF d.nan THEN <<"Invalid Date">>
    ELSE <<"day", ToString(d.day)>>

(***************************************************************************)
(* checkHackathonEligibility                                               *)
(***************************************************************************)
\* new Date('2025-05-31T00:00:00.000Z') / new Date('2024-12-01T00:00:00.000Z')
hackathonStartDate(im) ==
    IF im = "part_000" THEN NewDate(IsoString(0, 0))
    ELSE NewDate(IsoString(-181, 0))

cutoffName(im) ==
    IF im = "part_000" THEN "May 31, 2025" ELSE "December 1, 2024"

StrictlyBeforeMutant(a, b) ==
    /\ ~a.nan
    /\ ~b.nan
    /\ \/ a.day < b.day
       \/ a.day = b.day /\ a.ms <= b.ms

\* the gate failing on a creation timestamp that is no date
EligibilityThrowsMutant(im, repo) ==
    IF NewDate(repo.created_at).nan THEN Thrown
    ELSE [isEligible |-> ~DateLess(NewDate(repo.created_at), hackathonStartDate(im)),
          reason |-> <<"Repository created on ">> \o toDateString(NewDate(repo.created_at))]

\* createdDate < hackathonStartDate
CreatedBeforeStart(createdDate, startDate) == DateLess(createdDate, startDate)

checkHackathonEligibility(im, repo) ==
    LET createdDate == NewDate(repo.created_at)
        start == hackathonStartDate(im)
    IN  IF CreatedBeforeStart(createdDate, start)
        THEN [isEligible |-> FALSE,
              reason |-> <<"Repository created on ">> \o toDateString(createdDate)
                         \o (IF im = "part_000"
                             THEN <<", before hackathon start date (", cutoffName(im), ")">>
                             ELSE <<", before hackathon submission period (", cutoffName(im), ")">>)]
        ELSE [isEligible |-> TRUE,
              reason |-> IF im = "part_000"
                         THEN <<"Repository created on ">> \o toDateString(createdDate)
                              \o <<", from/after hackathon start date (", cutoffName(im), ")">>
                         ELSE <<"Repository meets hackathon timeline requirements">>]

(***************************************************************************)
(* Creation timestamps tried: around each variant's cutoff, and a string   *)
(* that does not parse.                                                    *)
(***************************************************************************)
\* The instant d milliseconds after the midnight that starts `day`.
InstantAt(day, d) ==
    IF d >= 0 THEN IsoString(day, d) ELSE IsoString(day - 1, msPerDay + d)

CutoffDays == {0, -181}

CreatedAtValues ==
    {InstantAt(day, d) : day \in CutoffDays, d \in (-MaxSkew)..MaxSkew}
      \cup {IsoString(-400, 0), IsoString(30, 12 * msPerHour), GarbageString}

Repo(created) == [created_at |-> created, language |-> "TypeScript", size |-> 120]

(***************************************************************************)
(* Specification of the Eligibility Gate on its own: the input is a        *)
(* repository record, the step applies checkHackathonEligibility.          *)
(***************************************************************************)
InitEligibility ==
    /\ impl \in Impls
    /\ pc = "elig_in"
    /\ repoData \in {Repo(c) : c \in CreatedAtValues}
    /\ eligibility = None
    /\ repoUrl = None /\ env = None /\ commits = <<>> /\ patterns = None
    /\ repoFiles = None /\ hasBoltNewBadge = FALSE /\ aiReply = None /\ aiAnalysis = None
    /\ response = None /\ calls = <<>>
    /\ app = None /\ invocations = None

CheckEligibility ==
    /\ pc = "elig_in"
    /\ eligibility' = checkHackathonEligibility(impl, repoData)
    /\ pc' = "elig_out"
    /\ UNCHANGED <<app, invocations, impl, repoUrl, env, repoData, commits, patterns, repoFiles,
                   hasBoltNewBadge, aiReply, aiAnalysis, response, calls>>

NextEligibility == CheckEligibility

SpecEligibility == InitEligibility /\ [][NextEligibility]_vars

\* C8: checkHackathonEligibility answers isEligible = TRUE exactly when the
\* (parsed) creation instant is at or after the cutoff: TRUE at the cutoff
\* itself, FALSE one millisecond before it.
C8_EligibleIffAtOrAfterCutoff ==
    (pc = "elig_out" /\ ~NewDate(repoData.created_at).nan) =>
        LET c == NewDate(repoData.created_at)
            s == hackathonStartDate(impl)
            atOrAfter == \/ c.day > s.day
                         \/ c.day = s.day /\ c.ms >= s.ms
        IN  /\ eligibility # Thrown
            /\ eligibility.isEligible = atOrAfter
            /\ (c = s => eligibility.isEligible)
            /\ (c = NewDate(InstantAt(s.day, -1)) => ~eligibility.isEligible)

C8_Witness ==
    /\ pc = "elig_out"
    /\ NewDate(repoData.created_at) = hackathonStartDate(impl)
    /\ eligibility.isEligible

\* C9: for a creation timestamp that does not parse, the gate propagates an
\* error and never returns an eligibility result.
C9_UnparsableTimestampIsAnError ==
    (pc = "elig_out" /\ NewDate(repoData.created_at).nan) => eligibility = Thrown

(***************************************************************************)
(* analyzeCommitPatterns                                                   *)
(***************************************************************************)
\* A GitHubCommit as far as the analysis reads it: commit.author.date (ms since
\* the reference midnight), commit.verification.verified, commit.message
\* (a sequence of words).
Commit(date, verified, message) ==
    [date |-> date, verified |-> verified, message |-> message]

\* String.prototype.toLowerCase on the words commit messages are made of.
toLowerCase(w) ==
    CASE w = "Package.json" -> "package.json"
      [] w = "Dependencies" -> "dependencies"
      [] w = "Update" -> "update"
      [] w = "Fix" -> "fix"
      [] OTHER -> w

\* message.toLowerCase().includes(needle)
includesLower(message, needle) ==
    \E i \in 1..Len(message) : toLowerCase(message[i]) = needle

\* Insertion of x into an ascending sequence, after the elements equal to it.
RECURSIVE InsertAsc(_, _)
InsertAsc(x, sorted) ==
    IF sorted = <<>> THEN <<x>>
    ELSE IF x < Head(sorted) THEN <<x>> \o sorted
    ELSE <<Head(sorted)>> \o InsertAsc(x, Tail(sorted))

\* commitTimes.sort((a, b) => a - b)
\* the sort left out: the times stay in the order the list came in
UnsortedMutant(seq) == seq

RECURSIVE SortAsc(_)
SortAsc(seq) ==
    IF seq = <<>> THEN <<>>
    ELSE InsertAsc(Head(seq), SortAsc(Tail(seq)))

\* the threshold taken in seconds while the time values are milliseconds
ThresholdInSecondsMutant == 5 * 60

rapidThreshold == 5 * 60 * 1000

\* commitTimes[i] - commitTimes[i - 1] < rapidThreshold
IsRapid(later, earlier) == later - earlier < rapidThreshold

\* for (let i = 1; i < commitTimes.length; i++) if (...) rapidCommits++
CountRapid(commitTimes) ==
    Cardinality({i \in 2..Len(commitTimes) : IsRapid(commitTimes[i], commitTimes[i - 1])})

\* (verified, total) for which the double (verified / total) * 100 falls just
\* below the exact .5 and Math.round therefore rounds down (IEEE-754 doubles).
RoundsBelowHalf ==
    {<<23, 40>>, <<46, 80>>, <<69, 120>>, <<92, 160>>,
     <<29, 200>>, <<57, 200>>, <<113, 200>>, <<115, 200>>}

\* the operands of the division swapped
PercentageSwappedMutant(verified, total) ==
    IF total > 0 /\ verified > 0
    THEN (200 * total + verified) \div (2 * verified)
    ELSE 0

\* totalCommits > 0 ? Math.round((verifiedCommits / totalCommits) * 100) : 0
Percentage(verified, total) ==
    IF total > 0
    THEN IF <<verified, total>> \in RoundsBelowHalf
         THEN (200 * verified + total) \div (2 * total) - 1
         ELSE (200 * verified + total) \div (2 * total)
    ELSE 0

\* new Date(date).getHours(), the function's local time being UTC
getHours(date) == (date \div msPerHour) % 24

\* the three thresholds met by the boundary values themselves
InclusiveThresholdsMutant(im, cs) ==
    LET verifiedCommits == Cardinality({i \in 1..Len(cs) : cs[i].verified})
        totalCommits == Len(cs)
        githubVerifiedPercentage == Percentage(verifiedCommits, totalCommits)
        commitTimes == SortAsc([i \in 1..Len(cs) |-> cs[i].date])
        rapidCommits == CountRapid(commitTimes)
        packageJsonCommits ==
            Cardinality({i \in 1..Len(cs) :
                            \/ includesLower(cs[i].message, "package.json")
                            \/ includesLower(cs[i].message, "dependencies")})
        filePatterns ==
            (IF packageJsonCommits > 0 THEN <<"Package.json modifications detected">> ELSE <<>>)
            \o (IF rapidCommits >= 5 THEN <<"Multiple rapid file changes">> ELSE <<>>)
            \o (IF githubVerifiedPercentage >= 70
                THEN IF im = "part_000"
                     THEN <<"High GitHub verification rate pattern">>
                     ELSE <<"High verification rate pattern">>
                ELSE <<>>)
        nightCommits ==
            Cardinality({i \in 1..Len(cs) :
                            getHours(cs[i].date) >= 22 \/ getHours(cs[i].date) <= 6})
        timePatterns ==
            (IF rapidCommits >= 10 THEN <<"Frequent rapid commits detected">> ELSE <<>>)
            \* nightCommits > totalCommits * 0.3
            \o (IF 10 * nightCommits > 3 * totalCommits
                THEN <<"Unusual late-night development patterns">> ELSE <<>>)
    IN  [rapidCommits |-> rapidCommits,
         filePatterns |-> filePatterns,
         timePatterns |-> timePatterns,
         verifiedCommits |-> verifiedCommits,
         totalCommits |-> totalCommits,
         \* named verificationPercentage in part_001
         githubVerifiedPercentage |-> githubVerifiedPercentage]

analyzeCommitPatterns(im, cs) ==
    LET verifiedCommits == Cardinality({i \in 1..Len(cs) : cs[i].verified})
        totalCommits == Len(cs)
        githubVerifiedPercentage == Percentage(verifiedCommits, totalCommits)
        commitTimes == SortAsc([i \in 1..Len(cs) |-> cs[i].date])
        rapidCommits == CountRapid(commitTimes)
        packageJsonCommits ==
            Cardinality({i \in 1..Len(cs) :
                            \/ includesLower(cs[i].message, "package.json")
                            \/ includesLower(cs[i].message, "dependencies")})
        filePatterns ==
            (IF packageJsonCommits > 0 THEN <<"Package.json modifications detected">> ELSE <<>>)
            \o (IF rapidCommits > 5 THEN <<"Multiple rapid file changes">> ELSE <<>>)
            \o (IF githubVerifiedPercentage > 70
                THEN IF im = "part_000"
                     THEN <<"High GitHub verification rate pattern">>
                     ELSE <<"High verification rate pattern">>
                ELSE <<>>)
        nightCommits ==
            Cardinality({i \in 1..Len(cs) :
                            getHours(cs[i].date) >= 22 \/ getHours(cs[i].date) <= 6})
        timePatterns ==
            (IF rapidCommits > 10 THEN <<"Frequent rapid commits detected">> ELSE <<>>)
            \* nightCommits > totalCommits * 0.3
            \o (IF 10 * nightCommits > 3 * totalCommits
                THEN <<"Unusual late-night development patterns">> ELSE <<>>)
    IN  [rapidCommits |-> rapidCommits,
         filePatterns |-> filePatterns,
         timePatterns |-> timePatterns,
         verifiedCommits |-> verifiedCommits,
         totalCommits |-> totalCommits,
         \* named verificationPercentage in part_001
         githubVerifiedPercentage |-> githubVerifiedPercentage]

(***************************************************************************)
(* Commit lists tried.                                                     *)
(***************************************************************************)
\* 06:55:00.000, 06:59:59.999 and 07:00:00.000 of the reference day: one
\* millisecond less than, and exactly, five minutes apart.
CommitDates == {415 * 60 * 1000, 415 * 60 * 1000 + rapidThreshold - 1,
                415 * 60 * 1000 + rapidThreshold}

CommitMessages == {<<"Update", "Package.json">>, <<"Fix", "typo">>}

Commits == {Commit(d, v, m) : d \in CommitDates, v \in BOOLEAN, m \in CommitMessages}

RECURSIVE ListsUpTo(_)
ListsUpTo(n) ==
    IF n = 0 THEN {<<>>}
    ELSE LET shorter == ListsUpTo(n - 1)
         IN  shorter \cup {Append(l, c) : l \in {s \in shorter : Len(s) = n - 1}, c \in Commits}

\* n commits, newest first as GitHub lists them: the oldest r + 1 one minute
\* apart, the later ones exactly five minutes apart; the v newest are verified.
BurstList(n, v, r) ==
    [i \in 1..n |->
        LET k == n - i   \* k-th commit in time order, from 0
        IN  Commit(12 * msPerHour
                     + (IF k <= r THEN k * 60 * 1000
                        ELSE r * 60 * 1000 + (k - r) * rapidThreshold),
                   i <= v,
                   <<"Fix", "typo">>)]

\* n verified commits, newest first, three seconds apart from 12:00:00 on:
\* up to 20 of them lie within one minute of each other.
MinuteList(n) ==
    [i \in 1..n |-> Commit(12 * msPerHour + (n - i) * 3 * 1000, TRUE, <<"Fix", "typo">>)]

BurstSizes == {7, 10, 12, 13, 17}

BurstLists ==
    {BurstList(n, v, r) : <<n, v, r>> \in
        {t \in BurstSizes \X (0..17) \X (0..16) : t[2] <= t[1] /\ t[3] < t[1]}}

AnalyzerInputs == ListsUpTo(MaxCommits) \cup BurstLists

(***************************************************************************)
(* Specification of the Commit Pattern Analyzer on its own.                *)
(***************************************************************************)
InitAnalyzer ==
    /\ impl \in Impls
    /\ pc = "analyze_in"
    /\ commits \in AnalyzerInputs
    /\ patterns = None
    /\ repoUrl = None /\ env = None /\ repoData = None /\ eligibility = None
    /\ repoFiles = None /\ hasBoltNewBadge = FALSE /\ aiReply = None /\ aiAnalysis = None
    /\ response = None /\ calls = <<>>
    /\ app = None /\ invocations = None

AnalyzeCommits ==
    /\ pc = "analyze_in"
    /\ patterns' = analyzeCommitPatterns(impl, commits)
    /\ pc' = "analyze_out"
    /\ UNCHANGED <<app, invocations, impl, repoUrl, env, repoData, commits, eligibility, repoFiles,
                   hasBoltNewBadge, aiReply, aiAnalysis, response, calls>>

NextAnalyzer == AnalyzeCommits

SpecAnalyzer == InitAnalyzer /\ [][NextAnalyzer]_vars

\* C10: for every commit list the signal bundle has
\* 0 <= verifiedCommits <= totalCommits, an integer verification ratio in
\* 0..100 that is 0 for the empty list, and
\* rapidCommits <= max(totalCommits - 1, 0).
C10_BundleRanges ==
    pc = "analyze_out" =>
        /\ patterns.totalCommits = Len(commits)
        /\ 0 <= patterns.verifiedCommits
        /\ patterns.verifiedCommits <= patterns.totalCommits
        /\ patterns.githubVerifiedPercentage \in 0..100
        /\ (patterns.totalCommits = 0 => patterns.githubVerifiedPercentage = 0)
        /\ patterns.rapidCommits >= 0
        /\ patterns.rapidCommits <= Max(patterns.totalCommits - 1, 0)

C10_Witness ==
    /\ pc = "analyze_out"
    /\ patterns.totalCommits = 3
    /\ patterns.rapidCommits = 2
    /\ patterns.verifiedCommits = 3
    /\ patterns.githubVerifiedPercentage = 100

\* C27: analyzeCommitPatterns reports multiple rapid changes exactly when
\* rapidCommits > 5, a high verification rate exactly when the ratio is above
\* 70, and frequent rapid commits (a time pattern) exactly when
\* rapidCommits > 10; the file patterns come in the order package.json, rapid
\* changes, verification rate.
C27_FindingThresholds ==
    pc = "analyze_out" =>
        LET fp == patterns.filePatterns
            tp == patterns.timePatterns
            Has(list, finding) == \E i \in 1..Len(list) : list[i] = finding
            verification == IF impl = "part_000" THEN "High GitHub verification rate pattern"
                            ELSE "High verification rate pattern"
            FileFinding(f) ==
                f \in {"Package.json modifications detected", "Multiple rapid file changes",
                       verification}
            FileRank(f) ==
                IF f = "Package.json modifications detected" THEN 1
                ELSE IF f = "Multiple rapid file changes" THEN 2 ELSE 3
        IN  /\ Has(fp, "Multiple rapid file changes") <=> patterns.rapidCommits > 5
            /\ Has(fp, verification) <=> patterns.githubVerifiedPercentage > 70
            /\ Has(tp, "Frequent rapid commits detected") <=> patterns.rapidCommits > 10
            /\ \A i \in 1..Len(fp) : FileFinding(fp[i])
            /\ \A i, j \in 1..Len(fp) : i < j => FileRank(fp[i]) < FileRank(fp[j])

\* five rapid commits and a ratio of exactly 70: no file pattern
C27_Witness ==
    /\ pc = "analyze_out"
    /\ patterns.rapidCommits = 5
    /\ patterns.githubVerifiedPercentage = 70
    /\ patterns.filePatterns = <<>>
    /\ patterns.timePatterns = <<>>

\* every reordering of a list of at most MaxCommits commits
AllOrders(cs) ==
    LET n == Len(cs)
    IN  {[i \in 1..n |-> cs[f[i]]] :
            f \in {g \in [1..n -> 1..n] : \A i, j \in 1..n : g[i] = g[j] => i = j}}

Reverse(cs) == [i \in 1..Len(cs) |-> cs[Len(cs) + 1 - i]]

\* the list with its first k commits moved to the end
Rotate(cs, k) == SubSeq(cs, k + 1, Len(cs)) \o SubSeq(cs, 1, k)

\* the list with the commits at i and i + 1 exchanged
SwapAt(cs, i) ==
    [j \in 1..Len(cs) |-> IF j = i THEN cs[i + 1] ELSE IF j = i + 1 THEN cs[i] ELSE cs[j]]

\* all permutations of a short list; of a long one its reversal, its
\* rotations and its adjacent transpositions
Reorderings(cs) ==
    IF Len(cs) <= MaxCommits + 1
    THEN AllOrders(cs)
    ELSE {Reverse(cs)} \cup {Rotate(cs, k) : k \in 1..(Len(cs) - 1)}
                       \cup {SwapAt(cs, i) : i \in 1..(Len(cs) - 1)}

\* C11: analyzeCommitPatterns returns the same rapidCommits for a commit list
\* and for every reordering of it, and the analysis leaves the list it was
\* given as it was (the sort works on the mapped copy commitTimes).
C11_RapidCountIgnoresOrder ==
    /\ [](pc = "analyze_out" =>
            \A q \in Reorderings(commits) :
                analyzeCommitPatterns(impl, q).rapidCommits = patterns.rapidCommits)
    /\ [][pc = "analyze_in" => commits' = commits]_vars

\* a list that is not in time order and has a rapid pair
C11_Witness ==
    /\ pc = "analyze_out"
    /\ Len(commits) = 3
    /\ commits[1].date < commits[2].date
    /\ commits[3].date < commits[2].date
    /\ patterns.rapidCommits = 2

(***************************************************************************)
(* JSON values as JSON.parse yields them.  n is a number in tenths, s a    *)
(* string, a an array of strings; Absent marks a property the object does  *)
(* not own.                                                                *)
(***************************************************************************)
JNum(tenths) == [t |-> "number", n |-> tenths, s |-> <<>>, a |-> <<>>]

JStr(str) == [t |-> "string", n |-> 0, s |-> str, a |-> <<>>]

JArr(items) == [t |-> "array", n |-> 0, s |-> <<>>, a |-> items]

JNull == [t |-> "null", n |-> 0, s |-> <<>>, a |-> <<>>]

Absent == [t |-> "absent", n |-> 0, s |-> <<>>, a |-> <<>>]

Obj(summary, likelihood, keyFindings, recommendations, confidence) ==
    [summary |-> summary, likelihood |-> likelihood, keyFindings |-> keyFindings,
     recommendations |-> recommendations, confidence |-> confidence]

EmptyObj == Obj(Absent, Absent, Absent, Absent, Absent)

requiredFields == {"summary", "likelihood", "keyFindings", "recommendations", "confidence"}

\* obj.hasOwnProperty(field)
hasOwnProperty(obj, field) == obj[field].t # "absent"

Digits == <<"0", "1", "2", "3", "4", "5", "6", "7", "8", "9">>

IsDigit(c) == \E d \in 1..10 : Digits[d] = c

DigitValue(c) == (CHOOSE d \in 1..10 : Digits[d] = c) - 1

\* decimal digits of a natural number
RECURSIVE NatToChars(_)
NatToChars(k) ==
    IF k < 10 THEN <<Digits[k + 1]>>
    ELSE NatToChars(k \div 10) \o <<Digits[(k % 10) + 1]>>

\* Array.prototype.join(','), which String(array) amounts to
RECURSIVE JoinComma(_)
JoinComma(items) ==
    IF items = <<>> THEN <<>>
    ELSE IF Len(items) = 1 THEN items[1]
    ELSE items[1] \o <<",">> \o JoinComma(Tail(items))

\* String(v)
String(v) ==
    CASE v.t = "string" -> v.s
      [] v.t = "number" ->
            LET m == IF v.n < 0 THEN -v.n ELSE v.n
            IN  (IF v.n < 0 THEN <<"-">> ELSE <<>>)
                \o NatToChars(m \div 10)
                \o (IF m % 10 = 0 THEN <<>> ELSE <<".", Digits[(m % 10) + 1]>>)
      [] v.t = "null" -> <<"n", "u", "l", "l">>
      [] v.t = "array" -> JoinComma(v.a)
      [] OTHER -> <<"u", "n", "d", "e", "f", "i", "n", "e", "d">>

\* value of the longest prefix of digits, most significant first
RECURSIVE DigitsPrefix(_, _)
DigitsPrefix(chars, acc) ==
    IF chars = <<>> \/ ~IsDigit(Head(chars)) THEN acc
    ELSE DigitsPrefix(Tail(chars), 10 * acc + DigitValue(Head(chars)))

RECURSIVE SkipSpaces(_)
SkipSpaces(chars) ==
    IF chars # <<>> /\ Head(chars) = " " THEN SkipSpaces(Tail(chars)) ELSE chars

\* parseInt(string): leading white space, an optional sign, then digits up to
\* the first character that is none; NaN when there is no digit.
parseInt(chars) ==
    LET t == SkipSpaces(chars)
        neg == t # <<>> /\ Head(t) = "-"
        u == IF t # <<>> /\ Head(t) \in {"-", "+"} THEN Tail(t) ELSE t
    IN  IF u = <<>> \/ ~IsDigit(Head(u)) THEN [nan |-> TRUE, v |-> 0]
        ELSE [nan |-> FALSE,
              v |-> IF neg THEN -DigitsPrefix(u, 0) ELSE DigitsPrefix(u, 0)]

(***************************************************************************)
(* The text Gemini answers with: a sequence of tokens.  A token is white   *)
(* space, a code fence with or without the json tag, a brace, prose, the   *)
(* literal null, or the members of an object (the text between its braces).*)
(***************************************************************************)
Tok(k) == [k |-> k, o |-> EmptyObj]

Members(obj) == [k |-> "members", o |-> obj]

RECURSIVE DropLeadingWs(_)
DropLeadingWs(text) ==
    IF text # <<>> /\ Head(text).k = "ws" THEN DropLeadingWs(Tail(text)) ELSE text

RECURSIVE DropTrailingWs(_)
DropTrailingWs(text) ==
    IF text # <<>> /\ text[Len(text)].k = "ws"
    THEN DropTrailingWs(SubSeq(text, 1, Len(text) - 1))
    ELSE text

\* String.prototype.trim
trim(text) == DropTrailingWs(DropLeadingWs(text))

\* cleanedText.replace(/```json\s*|\s*```/g, ''), scanning from the left:
\* "```json" goes with the white space after it; white space goes with the
\* "```" after it, which leaves the tag of a "```json" fence behind as prose.
RECURSIVE removeFences(_)
removeFences(text) ==
    IF text = <<>> THEN <<>>
    ELSE LET h == Head(text)
             afterWs == DropLeadingWs(text)
         IN  CASE h.k = "fence_json" -> removeFences(DropLeadingWs(Tail(text)))
               [] h.k = "fence" -> removeFences(Tail(text))
               [] h.k = "ws" /\ afterWs # <<>> /\ Head(afterWs).k = "fence" ->
                      removeFences(Tail(afterWs))
               [] h.k = "ws" /\ afterWs # <<>> /\ Head(afterWs).k = "fence_json" ->
                      <<Tok("prose")>> \o removeFences(Tail(afterWs))
               [] OTHER -> <<h>> \o removeFences(Tail(text))

\* indexOf / lastIndexOf, 0 when the token does not occur (positions from 1)
indexOf(text, k) ==
    IF \E i \in 1..Len(text) : text[i].k = k
    THEN CHOOSE i \in 1..Len(text) :
            text[i].k = k /\ \A j \in 1..(i - 1) : text[j].k # k
    ELSE 0

lastIndexOf(text, k) ==
    IF \E i \in 1..Len(text) : text[i].k = k
    THEN CHOOSE i \in 1..Len(text) :
            text[i].k = k /\ \A j \in (i + 1)..Len(text) : text[j].k # k
    ELSE 0

\* if (jsonStart !== -1 && jsonEnd !== -1 && jsonEnd > jsonStart) substring(...)
cutToBraces(text) ==
    LET jsonStart == indexOf(text, "lbrace")
        jsonEnd == lastIndexOf(text, "rbrace")
    IN  IF jsonStart # 0 /\ jsonEnd # 0 /\ jsonEnd > jsonStart
        THEN SubSeq(text, jsonStart, jsonEnd)
        ELSE text

\* JSON.parse: white space is insignificant; the text must be one value.
JSONparse(text) ==
    LET sig == SelectSeq(text, LAMBDA tk : tk.k # "ws")
    IN  CASE Len(sig) = 3 /\ sig[1].k = "lbrace" /\ sig[2].k = "members" /\ sig[3].k = "rbrace" ->
                [threw |-> FALSE, isNull |-> FALSE, obj |-> sig[2].o]
          [] Len(sig) = 2 /\ sig[1].k = "lbrace" /\ sig[2].k = "rbrace" ->
                [threw |-> FALSE, isNull |-> FALSE, obj |-> EmptyObj]
          [] Len(sig) = 1 /\ sig[1].k = "null" ->
                [threw |-> FALSE, isNull |-> TRUE, obj |-> EmptyObj]
          [] OTHER -> [threw |-> TRUE, isNull |-> FALSE, obj |-> EmptyObj]

(***************************************************************************)
(* analyzeWithGemini                                                       *)
(***************************************************************************)
ConfidenceLevels == {<<"high">>, <<"medium">>, <<"low">>}

\* x > 80 ? 'high' : x > 60 ? 'medium' : 'low', x in tenths
TierOf(x) ==
    IF x > Num(80) THEN <<"high">> ELSE IF x > Num(60) THEN <<"medium">> ELSE <<"low">>

\* the estimate substituted for a likelihood that parseInt makes falsy
heuristicLikelihood(im, p) ==
    IF im = "part_000"
    THEN Num(Min(p.githubVerifiedPercentage + p.rapidCommits, 100))
    ELSE Num(p.githubVerifiedPercentage)

\* if (typeof likelihood !== 'number') likelihood = parseInt(String(likelihood)) || ...
coerceLikelihood(im, v, p) ==
    IF v.t = "number" THEN v
    ELSE LET parsed == parseInt(String(v))
         IN  IF parsed.nan \/ parsed.v = 0 THEN JNum(heuristicLikelihood(im, p))
             ELSE JNum(Num(parsed.v))

\* if (!['high', 'medium', 'low'].includes(confidence)) confidence = ...
validateConfidence(im, conf, likelihood, p) ==
    IF conf.t = "string" /\ conf.s \in ConfidenceLevels THEN conf
    ELSE IF im = "part_000" THEN JStr(TierOf(likelihood.n))
    ELSE JStr(TierOf(Num(p.githubVerifiedPercentage)))

\* if (!Array.isArray(x)) x = [String(x)]
ensureArray(v) == IF v.t = "array" THEN v ELSE JArr(<<String(v)>>)

\* the return statement of the inner try block
normalizeParsed(im, obj, p) ==
    LET likelihood == coerceLikelihood(im, obj.likelihood, p)
    IN  Obj(obj.summary,
            likelihood,
            ensureArray(obj.keyFindings),
            ensureArray(obj.recommendations),
            validateConfidence(im, obj.confidence, likelihood, p))

\* Math.min left out
FallbackUncappedMutant(im, p) ==
    IF im = "part_000"
    THEN 3 * p.githubVerifiedPercentage + Num(2 * p.rapidCommits)
           + (IF p.totalCommits > 50 THEN Num(10) ELSE 0)
    ELSE Num(p.githubVerifiedPercentage + (IF p.rapidCommits > 10 THEN 15 ELSE 0))

\* the size bonus given to the small repositories instead of the large ones
FallbackBonusFlippedMutant(im, p) ==
    IF im = "part_000"
    THEN Min(3 * p.githubVerifiedPercentage + Num(2 * p.rapidCommits)
               + (IF p.totalCommits < 50 THEN Num(10) ELSE 0),
             Num(100))
    ELSE Num(Min(p.githubVerifiedPercentage + (IF p.rapidCommits < 10 THEN 15 ELSE 0), 100))

\* Math.min(pct * 0.3 + rapid * 2 + (total > 50 ? 10 : 0), 100), in tenths /
\* Math.min(pct + (rapid > 10 ? 15 : 0), 100)
fallbackLikelihood(im, p) ==
    IF im = "part_000"
    THEN Min(3 * p.githubVerifiedPercentage + Num(2 * p.rapidCommits)
               + (IF p.totalCommits > 50 THEN Num(10) ELSE 0),
             Num(100))
    ELSE Num(Min(p.githubVerifiedPercentage + (IF p.rapidCommits > 10 THEN 15 ELSE 0), 100))

\* the tiers of the confidence set five rapid commits higher
FallbackConfidenceShiftedMutant(im, p) ==
    IF im = "part_000"
    THEN IF p.rapidCommits > 20 THEN <<"high">>
         ELSE IF p.rapidCommits > 12 THEN <<"medium">> ELSE <<"low">>
    ELSE TierOf(Num(p.githubVerifiedPercentage))

\* rapid > 15 ? 'high' : rapid > 7 ? 'medium' : 'low' /
\* pct > 80 ? 'high' : pct > 60 ? 'medium' : 'low'
fallbackConfidence(im, p) ==
    IF im = "part_000"
    THEN IF p.rapidCommits > 15 THEN <<"high">>
         ELSE IF p.rapidCommits > 7 THEN <<"medium">> ELSE <<"low">>
    ELSE TierOf(Num(p.githubVerifiedPercentage))

\* the object the outer catch block returns
fallbackAnalysis(im, repo, p) ==
    LET pct == ToString(p.githubVerifiedPercentage)
        total == ToString(p.totalCommits)
        rapid == ToString(p.rapidCommits)
        counts == <<pct, "% (", ToString(p.verifiedCommits), "/", total, " commits)">>
    IN  IF im = "part_000"
        THEN Obj(JStr(<<"Analysis based on ", total, " commits with ", pct,
                        "% GitHub verification rate. Rapid commits: ", rapid,
                        ". Development patterns suggest ",
                        IF p.rapidCommits > 10 THEN "automated" ELSE "manual",
                        " code generation.">>),
                 JNum(fallbackLikelihood(im, p)),
                 JArr(<< <<"GitHub verification rate: ">> \o counts,
                         <<"Rapid commit sequences: ", rapid, " detected">>,
                         <<IF p.rapidCommits > 10
                           THEN "High automation suggests AI-assisted development"
                           ELSE "Development patterns suggest human involvement">>,
                         <<"Repository created: ">> \o toDateString(NewDate(repo.created_at)) >>),
                 JArr(<< <<IF p.rapidCommits > 10
                           THEN "Manual code review recommended for hackathon compliance"
                           ELSE "Development patterns appear normal">>,
                         <<"Consider reviewing commit history for development timeline">>,
                         <<"Validate that primary development occurred within hackathon timeframe">> >>),
                 JStr(fallbackConfidence(im, p)))
        ELSE Obj(JStr(<<"Analysis based on ", total, " commits with ", pct,
                        "% verification rate. ",
                        IF p.githubVerifiedPercentage > 80
                        THEN "High verification suggests AI generation."
                        ELSE "Verification patterns indicate mixed development approach.">>),
                 JNum(fallbackLikelihood(im, p)),
                 JArr(<< <<"Verification rate: ">> \o counts,
                         <<"Rapid commit sequences: ", rapid, " detected">>,
                         <<IF p.githubVerifiedPercentage > 80
                           THEN "High verification rate indicates AI-assisted development"
                           ELSE "Verification patterns suggest human development">>,
                         <<"Repository created: ">> \o toDateString(NewDate(repo.created_at)) >>),
                 JArr(<< <<IF p.githubVerifiedPercentage > 80
                           THEN "Manual code review recommended for hackathon compliance"
                           ELSE "Verification patterns appear normal">>,
                         <<"Consider reviewing commit history for development timeline">>,
                         <<"Validate that primary development occurred within hackathon timeframe">> >>),
                 JStr(fallbackConfidence(im, p)))

\* What the fetch of the Gemini endpoint answers: the call rejects (or the
\* body is no JSON), a non-2xx status, a body without candidate text, a text.
ReplyThrows == [kind |-> "throws", text |-> <<>>]

ReplyStatus == [kind |-> "status", text |-> <<>>]

ReplyNoCandidate == [kind |-> "nocandidate", text |-> <<>>]

ReplyText(text) == [kind |-> "text", text |-> text]

\* the check of the required fields left out
FieldCheckSkippedMutant(reply) ==
    \/ reply.kind \in {"throws", "status", "nocandidate"}
    \/ reply.text = <<>>
    \/ LET parsed == JSONparse(cutToBraces(removeFences(trim(reply.text))))
       IN  parsed.threw \/ parsed.isNull

\* TRUE when something in the outer try block throws
geminiFails(reply) ==
    \/ reply.kind \in {"throws", "status", "nocandidate"}
    \/ reply.text = <<>>                                  \* if (!aiText)
    \/ LET parsed == JSONparse(cutToBraces(removeFences(trim(reply.text))))
       IN  \/ parsed.threw
           \/ parsed.isNull                               \* null.hasOwnProperty: TypeError
           \/ \E f \in requiredFields : ~hasOwnProperty(parsed.obj, f)

\* the outer try block: what it returns, or Thrown
geminiTry(im, repo, p, reply) ==
    IF geminiFails(reply) THEN Thrown
    ELSE normalizeParsed(im, JSONparse(cutToBraces(removeFences(trim(reply.text)))).obj, p)

\* the try block without the catch block that returns the fallback
AnalyzeWithoutCatchMutant(im, repo, p, reply) == geminiTry(im, repo, p, reply)

\* try { ... } catch (error) { return <fallback> }
analyzeWithGemini(im, repo, p, reply) ==
    IF geminiTry(im, repo, p, reply) = Thrown THEN fallbackAnalysis(im, repo, p)
    ELSE geminiTry(im, repo, p, reply)

(***************************************************************************)
(* Answers of the Gemini call tried.                                       *)
(***************************************************************************)
SomeFindings == JArr(<< <<"Finding 1">>, <<"Finding 2">> >>)

SomeRecommendations == JArr(<< <<"Recommendation 1">> >>)

BasePayload ==
    Obj(JStr(<<"A summary">>), JNum(Num(65)), SomeFindings, SomeRecommendations,
        JStr(<<"high">>))

LikelihoodValues ==
    {JNum(Num(x)) : x \in {0, 60, 61, 65, 70, 71, 80, 81, 100, 150, -5}}
      \cup {JNum(Num(65) + 5),
            JStr(<<"6", "5">>), JStr(<<"0">>), JStr(<<"9", "0", "%">>),
            JStr(<<"h", "i", "g", "h">>), JStr(<<" ", "7", "1">>), JStr(<<"-", "5">>),
            JNull, JArr(<< <<"8", "1">> >>)}

ConfidenceValues ==
    {JStr(c) : c \in ConfidenceLevels} \cup {JStr(<<"High">>), JStr(<<"very high">>), JNull, JNum(Num(1))}

ListValues ==
    {SomeFindings, JArr(<<>>), JStr(<<"just one">>), JNull}

Payloads ==
    {Obj(BasePayload.summary, l, SomeFindings, SomeRecommendations, c) :
        l \in LikelihoodValues, c \in ConfidenceValues}
      \cup {Obj(sm, BasePayload.likelihood, kf, rc, BasePayload.confidence) :
              sm \in {BasePayload.summary, JNull}, kf \in ListValues, rc \in ListValues}
      \cup {[BasePayload EXCEPT ![f] = Absent] : f \in requiredFields}
      \cup {EmptyObj}

\* The object alone; in a ```json fence; with prose around it; in a fence after
\* an introduction.
WellFormedTexts(obj) ==
    LET body == <<Tok("lbrace"), Members(obj), Tok("rbrace")>>
    IN  {body,
         <<Tok("ws")>> \o body \o <<Tok("ws")>>,
         <<Tok("fence_json"), Tok("ws")>> \o body \o <<Tok("ws"), Tok("fence")>>,
         <<Tok("fence"), Tok("ws")>> \o body \o <<Tok("ws"), Tok("fence")>>,
         <<Tok("prose"), Tok("ws")>> \o body \o <<Tok("ws"), Tok("prose")>>,
         <<Tok("prose"), Tok("ws"), Tok("fence_json"), Tok("ws")>> \o body
            \o <<Tok("ws"), Tok("fence")>>}

\* "not json at all"
NotJsonAtAll == <<Tok("prose")>>

\* Empty, blank, prose, truncated, unbalanced, doubled, and the literal null.
MalformedTexts ==
    {<<>>,
     <<Tok("ws")>>,
     NotJsonAtAll,
     <<Tok("lbrace"), Members(BasePayload)>>,
     <<Tok("fence_json"), Tok("ws"), Tok("lbrace"), Members(BasePayload)>>,
     <<Members(BasePayload), Tok("rbrace")>>,
     <<Tok("rbrace"), Members(BasePayload), Tok("lbrace")>>,
     <<Tok("lbrace"), Tok("prose"), Tok("rbrace")>>,
     <<Tok("lbrace"), Members(BasePayload), Tok("rbrace"), Tok("ws"),
       Tok("lbrace"), Members(BasePayload), Tok("rbrace")>>,
     <<Tok("lbrace"), Tok("rbrace")>>,
     <<Tok("null")>>}

FailedReplies == {ReplyThrows, ReplyStatus, ReplyNoCandidate}

Replies ==
    FailedReplies
      \cup {ReplyText(t) : t \in MalformedTexts}
      \cup {ReplyText(t) : t \in WellFormedTexts(BasePayload)}
      \cup {ReplyText(<<Tok("lbrace"), Members(o), Tok("rbrace")>>) : o \in Payloads}

(***************************************************************************)
(* Specification of the AI Opinion Normalizer on its own: the input is a   *)
(* signal bundle the analyzer produces and the repository record, the step *)
(* is one call of analyzeWithGemini with some answer of the AI call.       *)
(***************************************************************************)
NormalizerSizes == {13, 17}

NormalizerLists ==
    ListsUpTo(MaxCommits)
      \cup {BurstList(n, v, r) : <<n, v, r>> \in
              {t \in NormalizerSizes \X (0..17) \X (0..16) : t[2] <= t[1] /\ t[3] < t[1]}}

InitNormalizer ==
    /\ impl \in Impls
    /\ pc = "gemini_in"
    /\ repoData \in {Repo(IsoString(30, 12 * msPerHour)), Repo(GarbageString)}
    /\ patterns \in {analyzeCommitPatterns(impl, l) : l \in NormalizerLists}
    /\ repoUrl = None /\ env = None /\ commits = <<>> /\ eligibility = None
    /\ repoFiles = None /\ hasBoltNewBadge = FALSE /\ aiReply = None /\ aiAnalysis = None
    /\ response = None /\ calls = <<>>
    /\ app = None /\ invocations = None

CallGemini ==
    /\ pc = "gemini_in"
    /\ \E reply \in Replies :
          /\ aiReply' = reply
          /\ aiAnalysis' = analyzeWithGemini(impl, repoData, patterns, reply)
    /\ pc' = "gemini_out"
    /\ UNCHANGED <<app, invocations, impl, repoUrl, env, repoData, commits, eligibility, patterns,
                   repoFiles, hasBoltNewBadge, response, calls>>

NextNormalizer == CallGemini

SpecNormalizer == InitNormalizer /\ [][NextNormalizer]_vars

\* An opinion as the data model has it.
IntegerLikelihood(o) ==
    /\ o.likelihood.t = "number"
    /\ IsInteger(o.likelihood.n)
    /\ o.likelihood.n >= Num(0)
    /\ o.likelihood.n <= Num(100)

ValidConfidence(o) ==
    o.confidence.t = "string" /\ o.confidence.s \in ConfidenceLevels

NonEmptyList(v) == v.t = "array" /\ Len(v.a) > 0

\* The AI call failed, or its text is empty or no JSON.
NoUsableText(reply) ==
    \/ reply \in FailedReplies
    \/ reply.text = <<>>
    \/ JSONparse(cutToBraces(removeFences(trim(reply.text)))).threw

\* C1: when the AI call fails or its text is malformed, truncated, no JSON or
\* empty, analyzeWithGemini returns an opinion with all five fields, an
\* integer likelihood in 0..100 and a confidence among low, medium, high.
C1_FallbackOpinionValid ==
    (pc = "gemini_out" /\ NoUsableText(aiReply)) =>
        /\ aiAnalysis # Thrown
        /\ \A f \in requiredFields : hasOwnProperty(aiAnalysis, f)
        /\ IntegerLikelihood(aiAnalysis)
        /\ ValidConfidence(aiAnalysis)

\* The text parses as an object that owns the five required fields.
ParsesWithAllFields(reply) ==
    /\ reply.kind = "text"
    /\ reply.text # <<>>
    /\ LET parsed == JSONparse(cutToBraces(removeFences(trim(reply.text))))
       IN  /\ ~parsed.threw
           /\ ~parsed.isNull
           /\ \A f \in requiredFields : hasOwnProperty(parsed.obj, f)

\* C2: when the AI text parses as an object with the five required fields,
\* whatever their values, the opinion returned has an integer likelihood in
\* 0..100, non-empty keyFindings and recommendations and a confidence among
\* low, medium, high.
C2_ParsedOpinionValid ==
    (pc = "gemini_out" /\ ParsesWithAllFields(aiReply)) =>
        /\ IntegerLikelihood(aiAnalysis)
        /\ NonEmptyList(aiAnalysis.keyFindings)
        /\ NonEmptyList(aiAnalysis.recommendations)
        /\ ValidConfidence(aiAnalysis)

\* C4: for the raw text "not json at all" and a bundle with rapidCommits = 12
\* and a verification ratio of 85, the opinion is the fallback opinion and its
\* confidence is "high".
C4_ScenarioThreeHighConfidence ==
    (/\ pc = "gemini_out"
     /\ aiReply = ReplyText(NotJsonAtAll)
     /\ patterns.rapidCommits = 12
     /\ patterns.githubVerifiedPercentage = 85) =>
        /\ aiAnalysis = fallbackAnalysis(impl, repoData, patterns)
        /\ aiAnalysis.confidence = JStr(<<"high">>)

\* the object the AI text parses to
ParsedPayload(reply) == JSONparse(cutToBraces(removeFences(trim(reply.text)))).obj

\* a string that is the decimal numeral of an integer
IsNumeral(v) ==
    /\ v.t = "string"
    /\ LET ds == IF v.s # <<>> /\ Head(v.s) = "-" THEN Tail(v.s) ELSE v.s
       IN  ds # <<>> /\ \A i \in 1..Len(ds) : IsDigit(ds[i])

NumeralValue(v) ==
    IF Head(v.s) = "-" THEN -DigitsPrefix(Tail(v.s), 0) ELSE DigitsPrefix(v.s, 0)

\* C24: when the AI text parses with all five fields and its likelihood is no
\* number but a numeral ("0", "65"), the opinion's likelihood is the integer
\* the numeral denotes; the heuristic estimate stands in only for a
\* likelihood that is not numeric.
C24_NumeralLikelihoodCoerced ==
    (/\ pc = "gemini_out"
     /\ ParsesWithAllFields(aiReply)
     /\ IsNumeral(ParsedPayload(aiReply).likelihood)) =>
        aiAnalysis.likelihood = JNum(Num(NumeralValue(ParsedPayload(aiReply).likelihood)))

\* C25: when the AI text parses with all five fields, a confidence that is
\* low, medium or high is returned as it is, and any other confidence is
\* replaced by the tier of the opinion's likelihood as returned (coerced
\* where it was no number): high above 80, medium above 60, low otherwise.
C25_ConfidenceKeptOrDerivedFromLikelihood ==
    (pc = "gemini_out" /\ ParsesWithAllFields(aiReply)) =>
        LET given == ParsedPayload(aiReply).confidence
        IN  IF given.t = "string" /\ given.s \in {<<"low">>, <<"medium">>, <<"high">>}
            THEN aiAnalysis.confidence = given
            ELSE aiAnalysis.confidence =
                    JStr(IF aiAnalysis.likelihood.n > Num(80) THEN <<"high">>
                         ELSE IF aiAnalysis.likelihood.n > Num(60) THEN <<"medium">>
                         ELSE <<"low">>)

\* C26: when the AI text does not parse as JSON, or parses to something
\* that lacks one of summary, likelihood, keyFindings, recommendations and
\* confidence, the opinion returned is the fallback opinion computed from the
\* bundle and the repository, whole: nothing of the AI payload is in it.
C26_PartialPayloadGivesWholeFallback ==
    (pc = "gemini_out" /\ aiReply.kind = "text" /\ ~ParsesWithAllFields(aiReply)) =>
        aiAnalysis = fallbackAnalysis(impl, repoData, patterns)

\* the text parses, has a summary of its own and lacks one other field
C26_Witness ==
    /\ pc = "gemini_out"
    /\ aiReply.kind = "text"
    /\ aiReply.text # <<>>
    /\ ~JSONparse(cutToBraces(removeFences(trim(aiReply.text)))).threw
    /\ hasOwnProperty(ParsedPayload(aiReply), "summary")
    /\ ~hasOwnProperty(ParsedPayload(aiReply), "confidence")
    /\ aiAnalysis = fallbackAnalysis(impl, repoData, patterns)
    /\ aiAnalysis.summary # ParsedPayload(aiReply).summary

(***************************************************************************)
(* checkBoltNewBadge (part_000 only)                                       *)
(***************************************************************************)
FirstFile == "src/App.tsx"

alternativeFiles == <<"src/App.js", "src/app.tsx", "src/app.js", "App.tsx", "App.js">>

CandidateFiles == {FirstFile} \cup {alternativeFiles[i] : i \in 1..Len(alternativeFiles)}

\* What one fetch of a file's content comes to: "notfound" (response not ok),
\* "nocontent" (ok, no content property), "marker" / "plain" (content with /
\* without bolt.new, in any letter case), "throws" (the fetch, the body's
\* json() or atob throws).
FileAnswers == {"notfound", "nocontent", "marker", "plain", "throws"}

\* the loop going on to the next file after one without the marker
RECURSIVE TryEveryAlternativeMutant(_, _, _)
TryEveryAlternativeMutant(files, i, fetched) ==
    IF i > Len(alternativeFiles) THEN [found |-> FALSE, fetched |-> fetched]
    ELSE LET f == alternativeFiles[i]
             now == Append(fetched, f)
         IN  CASE files[f] = "throws" -> [found |-> FALSE, fetched |-> now]
               [] files[f] = "marker" -> [found |-> TRUE, fetched |-> now]
               [] OTHER -> TryEveryAlternativeMutant(files, i + 1, now)

\* the for loop over alternativeFiles, from position i
RECURSIVE tryAlternatives(_, _, _)
tryAlternatives(files, i, fetched) ==
    IF i > Len(alternativeFiles) THEN [found |-> FALSE, fetched |-> fetched]
    ELSE LET f == alternativeFiles[i]
             now == Append(fetched, f)
         IN  CASE files[f] = "throws" -> [found |-> FALSE, fetched |-> now]
               [] files[f] = "marker" -> [found |-> TRUE, fetched |-> now]
               [] files[f] = "plain" -> [found |-> FALSE, fetched |-> now]
               [] OTHER -> tryAlternatives(files, i + 1, now)

\* the catch block assuming a badge
CatchReturnsTrueMutant(files) ==
    CASE files[FirstFile] = "throws" -> [found |-> TRUE, fetched |-> <<FirstFile>>]
      [] files[FirstFile] = "notfound" ->
            LET r == tryAlternatives(files, 1, <<FirstFile>>)
            IN  [r EXCEPT !.found = r.found \/ files[r.fetched[Len(r.fetched)]] = "throws"]
      [] files[FirstFile] = "nocontent" -> [found |-> FALSE, fetched |-> <<FirstFile>>]
      [] files[FirstFile] = "marker" -> [found |-> TRUE, fetched |-> <<FirstFile>>]
      [] OTHER -> [found |-> FALSE, fetched |-> <<FirstFile>>]

\* found: the boolean returned; fetched: the files requested, in order
checkBoltNewBadge(files) ==
    CASE files[FirstFile] = "throws" -> [found |-> FALSE, fetched |-> <<FirstFile>>]
      [] files[FirstFile] = "notfound" -> tryAlternatives(files, 1, <<FirstFile>>)
      [] files[FirstFile] = "nocontent" -> [found |-> FALSE, fetched |-> <<FirstFile>>]
      [] files[FirstFile] = "marker" -> [found |-> TRUE, fetched |-> <<FirstFile>>]
      [] OTHER -> [found |-> FALSE, fetched |-> <<FirstFile>>]

(***************************************************************************)
(* Specification of checkBoltNewBadge on its own, over every combination   *)
(* of answers for the six candidate files.                                 *)
(***************************************************************************)
InitBadge ==
    /\ impl = "part_000"
    /\ pc = "badge_in"
    /\ repoFiles \in [CandidateFiles -> FileAnswers]
    /\ hasBoltNewBadge = FALSE
    /\ calls = <<>>
    /\ repoUrl = None /\ env = None /\ repoData = None /\ commits = <<>>
    /\ eligibility = None /\ patterns = None /\ aiReply = None /\ aiAnalysis = None
    /\ response = None
    /\ app = None /\ invocations = None

CheckBadge ==
    /\ pc = "badge_in"
    /\ hasBoltNewBadge' = checkBoltNewBadge(repoFiles).found
    /\ calls' = checkBoltNewBadge(repoFiles).fetched
    /\ pc' = "badge_out"
    /\ UNCHANGED <<app, invocations, impl, repoUrl, env, repoData, commits, eligibility, patterns,
                   repoFiles, aiReply, aiAnalysis, response>>

NextBadge == CheckBadge

SpecBadge == InitBadge /\ [][NextBadge]_vars

\* the candidate files in the order they are asked for
CandidateOrder == <<FirstFile>> \o alternativeFiles

\* C22 as stated: the check returns TRUE exactly when some candidate file
\* that exists holds the marker.
C22_TrueIffMarkerInSomeCandidate ==
    pc = "badge_out" =>
        (hasBoltNewBadge <=> \E f \in CandidateFiles : repoFiles[f] = "marker")

\* C22, amended: the check returns TRUE exactly when the first candidate
\* file, in the order asked, that is not skipped holds the marker; src/App.tsx
\* is skipped when its response is not ok, an alternative also when it has no
\* content. Files after that one are not asked for.
C22_TrueIffFirstFileFoundHasMarker ==
    pc = "badge_out" =>
        LET Skipped(k) ==
                \/ repoFiles[CandidateOrder[k]] = "notfound"
                \/ k > 1 /\ repoFiles[CandidateOrder[k]] = "nocontent"
            Decisive(k) == ~Skipped(k) /\ \A j \in 1..(k - 1) : Skipped(j)
        IN  /\ hasBoltNewBadge <=>
                  \E k \in 1..Len(CandidateOrder) :
                      Decisive(k) /\ repoFiles[CandidateOrder[k]] = "marker"
            /\ \A k \in 1..Len(CandidateOrder) :
                  Decisive(k) => calls = SubSeq(CandidateOrder, 1, k)

\* src/App.tsx is missing, src/App.js has other content, a later file has
\* the marker: the answer is FALSE
C22_Witness ==
    /\ pc = "badge_out"
    /\ repoFiles[FirstFile] = "notfound"
    /\ repoFiles["src/App.js"] = "plain"
    /\ repoFiles["App.tsx"] = "marker"
    /\ ~hasBoltNewBadge
    /\ calls = <<FirstFile, "src/App.js">>

(***************************************************************************)
(* The request handler (Deno.serve).                                       *)
(***************************************************************************)
\* the host not looked at: any piece followed by two more
AnyHostMutant(piece) == piece # ""

\* A URL is the sequence of its pieces between slashes.
\* repoUrl.match(/github\.com\/([^\/]+)\/([^\/]+)/)
IsGitHubHost(piece) == piece \in {"github.com", "www.github.com"}

urlMatch(url) ==
    IF \E i \in 1..(Len(url) - 2) : IsGitHubHost(url[i]) /\ url[i + 1] # "" /\ url[i + 2] # ""
    THEN LET i == CHOOSE j \in 1..(Len(url) - 2) :
                     /\ IsGitHubHost(url[j]) /\ url[j + 1] # "" /\ url[j + 2] # ""
                     /\ \A k \in 1..(j - 1) :
                            ~(IsGitHubHost(url[k]) /\ url[k + 1] # "" /\ url[k + 2] # "")
         IN  [matched |-> TRUE, owner |-> url[i + 1], repo |-> url[i + 2]]
    ELSE [matched |-> FALSE, owner |-> "", repo |-> ""]

\* repo.replace(/\.git$/, '')
cleanRepo(repo) == IF repo = "boltradar.git" THEN "boltradar" ELSE repo

ErrorResponse(status, error) ==
    [status |-> status, body |-> [error |-> error]]

ErrorResponseWithDetails(status, error, details) ==
    [status |-> status, body |-> [error |-> error, details |-> details]]

\* the catch block answering without error.message
AnalysisFailedBareMutant(message) == ErrorResponse(500, "Analysis failed")

\* the catch block of the handler
AnalysisFailed(message) == ErrorResponseWithDetails(500, "Analysis failed", message)

\* the collaborator's message dropped on the way
FetchFailedSilentlyMutant(what) == AnalysisFailed(<<"Unknown error">>)

\* the catch block of fetchGitHubData, then the catch block of the handler
FetchFailed(what) == AnalysisFailed(<<"Failed to fetch GitHub data:", what>>)

\* const isLikelyAIGenerated = ...
isLikelyAIGenerated(im, ai, p) ==
    IF im = "part_000" THEN ai.likelihood.n > Num(70)
    ELSE p.githubVerifiedPercentage > 80 \/ p.rapidCommits > 15

\* the local variable confidence
localConfidence(im, ai, p) ==
    IF im = "part_000" THEN TierOf(ai.likelihood.n)
    ELSE IF p.githubVerifiedPercentage > 80 \/ p.rapidCommits > 20 THEN <<"high">>
    ELSE IF p.githubVerifiedPercentage > 60 \/ p.rapidCommits > 10 THEN <<"medium">>
    ELSE <<"low">>

\* result.verificationPercentage, in tenths
resultVerificationPercentage(im, ai, p) ==
    IF im = "part_000" THEN ai.likelihood.n ELSE Num(p.githubVerifiedPercentage)

\* result.confidence
resultConfidence(im, ai, p) ==
    IF im = "part_000" THEN ai.confidence ELSE JStr(localConfidence(im, ai, p))

IneligibleMarker == <<"Repository not eligible for hackathon">>   \* after a warning sign

\* const details = [...]; if (!eligibility.isEligible) details.unshift(...)
buildDetails(im, p, ai, badge, repo, elig) ==
    LET counts == <<ToString(p.verifiedCommits), " (", ToString(p.githubVerifiedPercentage), "%)">>
        created == <<"Repository created: ">> \o toDateString(NewDate(repo.created_at))
        details ==
            IF im = "part_000"
            THEN << <<"Repository analyzed: ", ToString(p.totalCommits), " total commits">>,
                    <<"GitHub verified commits: ">> \o counts,
                    <<"Rapid commit sequences: ", ToString(p.rapidCommits)>>,
                    <<"AI likelihood assessment: ">> \o String(ai.likelihood) \o <<"%">>,
                    <<"Bolt.new badge ", IF badge THEN "detected" ELSE "not found",
                      " in source code">>,
                    created,
                    elig.reason >>
            ELSE << <<"Repository analyzed: ", ToString(p.totalCommits), " total commits">>,
                    <<"Verified commits: ">> \o counts,
                    <<"Rapid commit sequences: ", ToString(p.rapidCommits)>>,
                    created,
                    elig.reason >>
    IN  IF ~elig.isEligible THEN <<IneligibleMarker>> \o details ELSE details

\* const result: AnalysisResult = {...}
buildResult(im, url, p, ai, badge, repo, elig) ==
    [repoUrl |-> url,
     verificationPercentage |-> resultVerificationPercentage(im, ai, p),
     isLikelyAIGenerated |-> isLikelyAIGenerated(im, ai, p),
     isEligible |-> elig.isEligible,
     \* part_001 has no hasBoltNewBadge property; badge is FALSE there
     hasBoltNewBadge |-> badge,
     commitPatterns |-> p,
     confidence |-> resultConfidence(im, ai, p),
     details |-> buildDetails(im, p, ai, badge, repo, elig),
     aiAnalysis |-> ai,
     eligibilityReason |-> elig.reason]

OkResponse(result) == [status |-> 200, body |-> result]

(***************************************************************************)
(* Inputs of a request.                                                    *)
(***************************************************************************)
\* the body is no JSON; repoUrl missing; repoUrl empty; URLs
RequestBodies ==
    {[readable |-> FALSE, url |-> <<>>],
     [readable |-> TRUE, url |-> <<>>],
     [readable |-> TRUE, url |-> <<"https:", "", "github.com", "ManojINaik", "boltradar">>],
     [readable |-> TRUE, url |-> <<"https:", "", "github.com", "ManojINaik", "boltradar.git">>],
     [readable |-> TRUE, url |-> <<"https:", "", "github.com", "ManojINaik">>],
     [readable |-> TRUE, url |-> <<"https:", "", "gitlab.com", "ManojINaik", "boltradar">>]}

Environments == [GITHUB_TOKEN : BOOLEAN, GEMINI_API_KEY : BOOLEAN]

\* answers of the two GitHub fetches: a status that is not ok, a thrown error
FetchFailures == {"status", "throws"}

\* one millisecond before each cutoff, each cutoff, one millisecond after the
\* later cutoff, and a string that does not parse
RequestCreatedAt ==
    {InstantAt(day, d) : day \in CutoffDays, d \in {-1, 0}}
      \cup {InstantAt(0, 1), GarbageString}

RequestCommitLists ==
    {<<>>, BurstList(1, 1, 0), BurstList(3, 1, 2), BurstList(13, 11, 12),
     BurstList(17, 15, 16), BurstList(20, 20, 19), MinuteList(20)}

RequestFiles ==
    {[f \in CandidateFiles |-> IF f = FirstFile THEN a ELSE IF f = "src/App.js" THEN b ELSE "notfound"] :
        a \in FileAnswers, b \in {"notfound", "marker", "throws"}}

RequestReplies ==
    FailedReplies
      \cup {ReplyText(t) : t \in {<<>>, NotJsonAtAll, <<Tok("lbrace"), Members(BasePayload)>>}}
      \cup {ReplyText(<<Tok("fence_json"), Tok("ws"), Tok("lbrace"), Members(o), Tok("rbrace"),
                        Tok("ws"), Tok("fence")>>) :
              o \in {Obj(BasePayload.summary, l, SomeFindings, SomeRecommendations, c) :
                        l \in {JNum(Num(70)), JNum(Num(71)), JNum(Num(150)), JStr(<<"9", "0", "%">>)},
                        c \in {JStr(<<"low">>), JStr(<<"High">>)}}
                    \cup {[BasePayload EXCEPT !.confidence = Absent]}}

Init ==
    /\ impl \in Impls
    /\ pc = "start"
    /\ repoUrl \in RequestBodies
    /\ env \in Environments
    /\ repoData = None /\ commits = <<>> /\ eligibility = None /\ patterns = None
    /\ repoFiles = None /\ hasBoltNewBadge = FALSE /\ aiReply = None /\ aiAnalysis = None
    /\ response = None /\ calls = <<>>
    /\ app = None /\ invocations = None

Call(api) == [api |-> api, owner |-> urlMatch(repoUrl.url).owner,
              repo |-> cleanRepo(urlMatch(repoUrl.url).repo)]

\* only the GitHub token looked at
OnlyGitHubTokenMutant(e) == ~e.GITHUB_TOKEN

\* !githubToken || !geminiApiKey
MissingApiKeys(e) == ~e.GITHUB_TOKEN \/ ~e.GEMINI_API_KEY

\* From the start of the handler to the first await of fetchGitHubData.
HandleRequest ==
    /\ pc = "start"
    /\ IF ~repoUrl.readable
       THEN /\ response' = AnalysisFailed(<<"Unexpected end of JSON input">>)
            /\ pc' = "done"
            /\ calls' = calls
       ELSE IF repoUrl.url = <<>>
       THEN /\ response' = ErrorResponse(400, "Repository URL is required")
            /\ pc' = "done"
            /\ calls' = calls
       ELSE IF ~urlMatch(repoUrl.url).matched
       THEN /\ response' = ErrorResponse(400, "Invalid GitHub URL format")
            /\ pc' = "done"
            /\ calls' = calls
       ELSE IF MissingApiKeys(env)
       THEN /\ response' = ErrorResponseWithDetails(500, "API keys not configured",
                              <<"GITHUB_TOKEN and GEMINI_API_KEY environment variables are required">>)
            /\ pc' = "done"
            /\ calls' = calls
       ELSE /\ response' = response
            /\ pc' = "await_repo"
            /\ calls' = Append(calls, Call("repo"))
    /\ UNCHANGED <<app, invocations, impl, repoUrl, env, repoData, commits, eligibility, patterns,
                   repoFiles, hasBoltNewBadge, aiReply, aiAnalysis>>


\* The repository fetch answers; on success the commit-list fetch is issued.
RepoFetched ==
    /\ pc = "await_repo"
    /\ \/ \E failure \in FetchFailures :
            /\ response' = FetchFailed(IF failure = "status" THEN "GitHub API error (404)"
                                       ELSE "network error")
            /\ pc' = "done"
            /\ UNCHANGED <<repoData, calls>>
       \/ \E created \in RequestCreatedAt :
            /\ repoData' = Repo(created)
            /\ calls' = Append(calls, Call("commits"))
            /\ pc' = "await_commits"
            /\ UNCHANGED response
    /\ UNCHANGED <<app, invocations, impl, repoUrl, env, commits, eligibility, patterns,
                   repoFiles, hasBoltNewBadge, aiReply, aiAnalysis>>

\* The commit-list fetch answers; on success eligibility and patterns are
\* computed and the next collaborator is called: the first candidate file in
\* part_000, Gemini in part_001.
CommitsFetched ==
    /\ pc = "await_commits"
    /\ \/ \E failure \in FetchFailures :
            /\ response' = FetchFailed(IF failure = "status" THEN "GitHub commits API error (409)"
                                       ELSE "network error")
            /\ pc' = "done"
            /\ UNCHANGED <<commits, eligibility, patterns, calls>>
       \/ \E cs \in RequestCommitLists :
            /\ commits' = cs
            /\ eligibility' = checkHackathonEligibility(impl, repoData)
            /\ IF checkHackathonEligibility(impl, repoData) = Thrown
               THEN /\ response' = AnalysisFailed(<<"eligibility">>)
                    /\ pc' = "done"
                    /\ UNCHANGED <<patterns, calls>>
               ELSE /\ patterns' = analyzeCommitPatterns(impl, cs)
                    /\ response' = response
                    /\ IF impl = "part_000"
                       THEN /\ pc' = "await_badge"
                            /\ calls' = calls
                       ELSE /\ pc' = "await_gemini"
                            /\ calls' = Append(calls, Call("gemini"))
    /\ UNCHANGED <<app, invocations, impl, repoUrl, env, repoData, repoFiles, hasBoltNewBadge,
                   aiReply, aiAnalysis>>

\* the Gemini call issued together with the marker check, not after it
BadgeCheckedConcurrentlyMutant ==
    /\ pc = "await_badge"
    /\ \E files \in RequestFiles :
          LET badge == checkBoltNewBadge(files)
          IN  /\ repoFiles' = files
              /\ hasBoltNewBadge' = badge.found
              /\ calls' = calls \o <<Call("gemini")>>
                                \o [i \in 1..Len(badge.fetched) |->
                                      [Call("contents") EXCEPT !.api = badge.fetched[i]]]
    /\ pc' = "await_gemini"
    /\ UNCHANGED <<app, invocations, impl, repoUrl, env, repoData, commits, eligibility, patterns,
                   aiReply, aiAnalysis, response>>

\* checkBoltNewBadge runs to its end (it catches what it throws), then the
\* Gemini call is issued.
BadgeChecked ==
    /\ pc = "await_badge"
    /\ \E files \in RequestFiles :
          LET badge == checkBoltNewBadge(files)
          IN  /\ repoFiles' = files
              /\ hasBoltNewBadge' = badge.found
              /\ calls' = calls \o [i \in 1..Len(badge.fetched) |->
                                      [Call("contents") EXCEPT !.api = badge.fetched[i]]]
                                \o <<Call("gemini")>>
    /\ pc' = "await_gemini"
    /\ UNCHANGED <<app, invocations, impl, repoUrl, env, repoData, commits, eligibility, patterns,
                   aiReply, aiAnalysis, response>>

\* The Gemini call answers; analyzeWithGemini returns, the verdict is built
\* and sent.
GeminiAnswered ==
    /\ pc = "await_gemini"
    /\ \E reply \in RequestReplies :
          LET ai == analyzeWithGemini(impl, repoData, patterns, reply)
          IN  /\ aiReply' = reply
              /\ aiAnalysis' = ai
              /\ response' = IF ai = Thrown THEN AnalysisFailed(<<"Gemini">>)
                              ELSE OkResponse(buildResult(impl, repoUrl.url, patterns, ai,
                                                          hasBoltNewBadge, repoData, eligibility))
    /\ pc' = "done"
    /\ UNCHANGED <<app, invocations, impl, repoUrl, env, repoData, commits, eligibility, patterns,
                   repoFiles, hasBoltNewBadge, calls>>

Next ==
    \/ HandleRequest
    \/ RepoFetched
    \/ CommitsFetched
    \/ BadgeChecked
    \/ GeminiAnswered

Spec == Init /\ [][Next]_vars

IsVerdict(r) == r.status = 200 /\ "aiAnalysis" \in DOMAIN r.body

VerdictFields ==
    {"repoUrl", "verificationPercentage", "isLikelyAIGenerated", "isEligible",
     "commitPatterns", "confidence", "details", "aiAnalysis", "eligibilityReason"}

\* C3: once the repository fetch and the commit-list fetch have succeeded,
\* the request ends with a complete verdict, whatever the AI call answers.
C3_VerdictDespiteAiFailure ==
    (pc = "done" /\ repoData # None /\ patterns # None) =>
        /\ IsVerdict(response)
        /\ VerdictFields \subseteq DOMAIN response.body
        /\ response.body.aiAnalysis = aiAnalysis
        /\ \A f \in requiredFields : hasOwnProperty(response.body.aiAnalysis, f)

C3_Witness ==
    /\ pc = "done"
    /\ aiReply \in FailedReplies \cup {ReplyText(<<>>), ReplyText(NotJsonAtAll)}
    /\ IsVerdict(response)
    /\ response.body.aiAnalysis = fallbackAnalysis(impl, repoData, patterns)

\* C5: in every verdict isLikelyAIGenerated is TRUE exactly when the AI
\* opinion's likelihood is above 70.
C5_LikelyIffLikelihoodAbove70 ==
    (pc = "done" /\ IsVerdict(response)) =>
        (response.body.isLikelyAIGenerated <=> response.body.aiAnalysis.likelihood.n > Num(70))

\* C6: in every verdict the headline score, verificationPercentage, equals the
\* AI opinion's likelihood.
C6_HeadlineIsAiLikelihood ==
    (pc = "done" /\ IsVerdict(response)) =>
        response.body.verificationPercentage = response.body.aiAnalysis.likelihood.n

\* C7: in every verdict the top-level confidence equals the AI opinion's
\* confidence.
C7_ConfidencePassedThrough ==
    (pc = "done" /\ IsVerdict(response)) =>
        response.body.confidence = response.body.aiAnalysis.confidence

\* the repository fetch answered with a creation instant after / before the
\* variant's cutoff
CreatedAfterCutoff ==
    repoData # None /\ DateLess(hackathonStartDate(impl), NewDate(repoData.created_at))

CreatedBeforeCutoff ==
    repoData # None /\ DateLess(NewDate(repoData.created_at), hackathonStartDate(impl))

\* C12: a request whose commit list is empty, whose repository was created
\* after the cutoff and whose AI call fails ends with a complete verdict: all
\* four counts of the signal bundle are 0, filePatterns and timePatterns are
\* empty, the verdict is eligible, the fallback opinion's likelihood is 0 and
\* isLikelyAIGenerated is FALSE.
C12_ScenarioOneEmptyRepository ==
    (pc = "done" /\ patterns # None /\ commits = <<>> /\ CreatedAfterCutoff
       /\ aiReply \in FailedReplies) =>
        /\ IsVerdict(response)
        /\ VerdictFields \subseteq DOMAIN response.body
        /\ response.body.commitPatterns.totalCommits = 0
        /\ response.body.commitPatterns.verifiedCommits = 0
        /\ response.body.commitPatterns.githubVerifiedPercentage = 0
        /\ response.body.commitPatterns.rapidCommits = 0
        /\ response.body.commitPatterns.filePatterns = <<>>
        /\ response.body.commitPatterns.timePatterns = <<>>
        /\ response.body.isEligible
        /\ response.body.aiAnalysis = fallbackAnalysis(impl, repoData, patterns)
        /\ response.body.aiAnalysis.likelihood = JNum(0)
        /\ ~response.body.isLikelyAIGenerated

C12_Witness ==
    /\ pc = "done"
    /\ commits = <<>>
    /\ patterns # None
    /\ CreatedAfterCutoff
    /\ aiReply = ReplyThrows
    /\ IsVerdict(response)
    /\ response.body.aiAnalysis.likelihood = JNum(0)

\* C13: a request with 20 commits, all verified and all within one minute of
\* each other, in a repository created before the cutoff, ends with a verdict
\* whose bundle has rapidCommits = 19 and verification ratio 100, which is not
\* eligible, and whose details begin with the ineligibility marker.
C13_ScenarioTwoBurstBeforeCutoff ==
    (pc = "done" /\ patterns # None /\ Len(commits) = 20 /\ CreatedBeforeCutoff
       /\ \A i \in 1..20 : commits[i].verified
       /\ \A j, k \in 1..20 : commits[j].date - commits[k].date <= 60 * 1000) =>
        /\ IsVerdict(response)
        /\ response.body.commitPatterns.rapidCommits = 19
        /\ response.body.commitPatterns.githubVerifiedPercentage = 100
        /\ ~response.body.isEligible
        /\ response.body.details[1] = IneligibleMarker

C13_Witness ==
    /\ pc = "done"
    /\ commits = MinuteList(20)
    /\ CreatedBeforeCutoff
    /\ IsVerdict(response)
    /\ response.body.commitPatterns.rapidCommits = 19
    /\ Head(response.body.details) = IneligibleMarker

\* what an entry of the details list is about, read off its opening words
EntryKind(entry) ==
    IF entry = IneligibleMarker THEN "ineligible"
    ELSE IF Head(entry) = "Repository analyzed: " THEN "total"
    ELSE IF Head(entry) \in {"GitHub verified commits: ", "Verified commits: "} THEN "verified"
    ELSE IF Head(entry) = "Rapid commit sequences: " THEN "rapid"
    ELSE IF Head(entry) = "AI likelihood assessment: " THEN "likelihood"
    ELSE IF Head(entry) = "Bolt.new badge " THEN "marker"
    ELSE IF Head(entry) = "Repository created: " THEN "created"
    ELSE "other"

\* C14: the details list of every verdict has, in this order, the entries for
\* total commits, verified commits and ratio, rapid-commit count, likelihood,
\* marker presence and creation date, and the eligibility reason as its last
\* element; the ineligibility marker is the first element exactly when
\* isEligible is FALSE and occurs nowhere when isEligible is TRUE.
C14_DetailsOrder ==
    (pc = "done" /\ IsVerdict(response)) =>
        LET ds == response.body.details
            n == Len(ds)
            kinds == [i \in 1..(n - 1) |-> EntryKind(ds[i])]
            Listed(k) == k \in {"total", "verified", "rapid", "likelihood", "marker", "created"}
        IN  /\ SelectSeq(kinds, Listed)
                 = <<"total", "verified", "rapid", "likelihood", "marker", "created">>
            /\ ds[n] = response.body.eligibilityReason
            /\ (ds[1] = IneligibleMarker) <=> ~response.body.isEligible
            /\ response.body.isEligible => \A i \in 1..n : ds[i] # IneligibleMarker

(***************************************************************************)
(* Specification of the fallback opinion on its own: analyzeWithGemini     *)
(* with a failing Gemini call, over signal bundles of every verification   *)
(* ratio and every rapid-commit count a page of commits can give.          *)
(***************************************************************************)
\* commits?per_page=200: the longest commit list the function is given
perPage == 200

\* The bundle analyzeCommitPatterns gives for `total` commits made at noon
\* with the message "Fix typo", `verified` of them verified and `rapid` of
\* the gaps between them below the threshold.
SignalBundle(im, total, verified, rapid) ==
    LET pct == Percentage(verified, total)
    IN  [rapidCommits |-> rapid,
         filePatterns |->
            (IF rapid > 5 THEN <<"Multiple rapid file changes">> ELSE <<>>)
            \o (IF pct > 70
                THEN IF im = "part_000"
                     THEN <<"High GitHub verification rate pattern">>
                     ELSE <<"High verification rate pattern">>
                ELSE <<>>),
         timePatterns |-> IF rapid > 10 THEN <<"Frequent rapid commits detected">> ELSE <<>>,
         verifiedCommits |-> verified,
         totalCommits |-> total,
         githubVerifiedPercentage |-> pct]

\* a full page, and the longest list that gets no size bonus
BundleSizes == {50, perPage}

InitFallback ==
    /\ impl \in Impls
    /\ pc = "fallback_in"
    /\ repoData = Repo(IsoString(30, 12 * msPerHour))
    /\ \E total \in BundleSizes, verified \in 0..perPage, rapid \in 0..(perPage - 1) :
          /\ verified <= total
          /\ rapid < total
          /\ patterns = SignalBundle(impl, total, verified, rapid)
    /\ aiReply \in FailedReplies
    /\ repoUrl = None /\ env = None /\ commits = <<>> /\ eligibility = None
    /\ repoFiles = None /\ hasBoltNewBadge = FALSE /\ aiAnalysis = None
    /\ response = None /\ calls = <<>>
    /\ app = None /\ invocations = None

FallBack ==
    /\ pc = "fallback_in"
    /\ aiAnalysis' = analyzeWithGemini(impl, repoData, patterns, aiReply)
    /\ pc' = "fallback_out"
    /\ UNCHANGED <<app, invocations, impl, repoUrl, env, repoData, commits, eligibility, patterns,
                   repoFiles, hasBoltNewBadge, aiReply, response, calls>>

NextFallback == FallBack

SpecFallback == InitFallback /\ [][NextFallback]_vars

\* C15: the fallback likelihood of a bundle is between 0 and 100, is not
\* above that of any bundle with the same rapid-commit count and a higher
\* verification ratio (up to 100), and is not above that of any bundle with
\* the same ratio and a higher rapid-commit count (up to 199).
C15_FallbackLikelihoodMonotone ==
    pc = "fallback_out" =>
        LET l == aiAnalysis.likelihood.n
        IN  /\ aiAnalysis.likelihood.t = "number"
            /\ l >= Num(0)
            /\ l <= Num(100)
            /\ \A ratio \in patterns.githubVerifiedPercentage..100 :
                  l <= fallbackLikelihood(impl, [patterns EXCEPT !.githubVerifiedPercentage = ratio])
            /\ \A rapid \in patterns.rapidCommits..(perPage - 1) :
                  l <= fallbackLikelihood(impl, [patterns EXCEPT !.rapidCommits = rapid])

\* a bundle in the middle of both ranges whose likelihood is below the cap
C15_Witness ==
    /\ pc = "fallback_out"
    /\ patterns.githubVerifiedPercentage = 50
    /\ patterns.rapidCommits = 20
    /\ aiAnalysis.likelihood.n > Num(0)
    /\ aiAnalysis.likelihood.n < Num(100)

\* the request body cannot be read, or carries no URL, or one that does not
\* match
InputError ==
    \/ ~repoUrl.readable
    \/ repoUrl.url = <<>>
    \/ ~urlMatch(repoUrl.url).matched

ConfigurationError == ~env.GITHUB_TOKEN \/ ~env.GEMINI_API_KEY

\* the repository fetch or the commit-list fetch was issued and failed:
\* nothing was computed from their answers
FetchError ==
    /\ calls # <<>>
    /\ calls[Len(calls)].api \in {"repo", "commits"}
    /\ eligibility = None /\ patterns = None /\ aiAnalysis = None

IsErrorPayload(r) == r.status # 200 /\ "error" \in DOMAIN r.body

\* C16: every response is either a complete verdict (every verdict field,
\* with an AI opinion that has all its fields and the eligibility reason) or
\* an error payload of an error code and at most a detail string, without
\* any of the verdict's data; and an error payload is sent
\* only after an input error, a configuration error or a failed repository
\* or commit-list fetch, never once the gate, the analyzer, the marker check,
\* the normalizer or the composer have run.
C16_VerdictOrErrorNeverPartial ==
    pc = "done" =>
        \/ /\ IsVerdict(response)
           /\ VerdictFields \subseteq DOMAIN response.body
           /\ "error" \notin DOMAIN response.body
           /\ \A f \in requiredFields : hasOwnProperty(response.body.aiAnalysis, f)
           /\ response.body.eligibilityReason = eligibility.reason
        \/ /\ IsErrorPayload(response)
           \* its `details` is the error's detail string, not the verdict's list
           /\ DOMAIN response.body \subseteq {"error", "details"}
           /\ (DOMAIN response.body \cap (VerdictFields \cup {"hasBoltNewBadge"}))
                 \subseteq {"details"}
           /\ InputError \/ ConfigurationError \/ FetchError
           /\ eligibility = None /\ patterns = None /\ aiAnalysis = None
           /\ repoFiles = None

\* the commit-list fetch fails after the repository fetch has succeeded
C16_Witness ==
    /\ pc = "done"
    /\ repoData # None
    /\ FetchError
    /\ IsErrorPayload(response)
    /\ DOMAIN response.body = {"error", "details"}

\* C17 as stated: every failure response carries both error and details.
C17_EveryFailureHasErrorAndDetails ==
    (pc = "done" /\ ~IsVerdict(response)) =>
        /\ "error" \in DOMAIN response.body
        /\ "details" \in DOMAIN response.body

\* C17, amended: every failure response carries an error code; the answers
\* to missing credentials, to a failed fetch and to an unreadable body carry
\* a non-empty detail string as well, and the two 400 answers, to a missing
\* URL and to a URL that does not match, carry the error code alone.
C17_ErrorAlwaysDetailsUnlessUrlRejected ==
    (pc = "done" /\ ~IsVerdict(response)) =>
        /\ IsErrorPayload(response)
        /\ IF repoUrl.readable /\ (repoUrl.url = <<>> \/ ~urlMatch(repoUrl.url).matched)
           THEN /\ response.status = 400
                /\ DOMAIN response.body = {"error"}
           ELSE /\ response.status = 500
                /\ DOMAIN response.body = {"error", "details"}
                /\ response.body.details # <<>>

\* a URL that does not match is answered without details
C17_Witness ==
    /\ pc = "done"
    /\ repoUrl.readable
    /\ repoUrl.url # <<>>
    /\ ~urlMatch(repoUrl.url).matched
    /\ response = ErrorResponse(400, "Invalid GitHub URL format")

\* the GitHub owner/name pattern: github.com, then an owner, then a name
HasOwnerAndName(url) ==
    \E i \in 1..(Len(url) - 2) :
        url[i] \in {"github.com", "www.github.com"} /\ url[i + 1] # "" /\ url[i + 2] # ""

\* C18: a request whose repository URL is missing or does not have the GitHub
\* owner/name pattern never gets past the start of the handler: no
\* collaborator call is ever issued for it, nothing is fetched, and it ends
\* with a 400 input error.
C18_BadUrlRejectedBeforeAnyCall ==
    (repoUrl.readable /\ ~HasOwnerAndName(repoUrl.url)) =>
        /\ pc \in {"start", "done"}
        /\ calls = <<>>
        /\ repoData = None /\ repoFiles = None /\ aiReply = None
        /\ pc = "done" =>
              response = ErrorResponse(400, IF repoUrl.url = <<>>
                                            THEN "Repository URL is required"
                                            ELSE "Invalid GitHub URL format")

\* a URL of another host has been rejected, credentials missing or not
C18_Witness ==
    /\ pc = "done"
    /\ repoUrl.readable
    /\ repoUrl.url # <<>>
    /\ ~HasOwnerAndName(repoUrl.url)
    /\ env.GITHUB_TOKEN /\ env.GEMINI_API_KEY
    /\ response.status = 400
    /\ calls = <<>>

\* C19 as stated: whenever a credential is missing the request ends with the
\* configuration error and without a collaborator call.
C19_MissingCredentialIsConfigurationError ==
    (pc = "done" /\ ConfigurationError) =>
        /\ response.body.error = "API keys not configured"
        /\ calls = <<>>

\* C19, amended: a request with a readable body and a matching URL, and with
\* either credential missing, ends with the configuration error (status 500,
\* error and details) and without a collaborator call; its error code is sent
\* for no other failure, the input errors and the fetch failures having
\* other codes. A request whose body or URL is rejected gets the input
\* error, credentials missing or not, and no collaborator call either.
C19_ConfigurationErrorAfterValidUrl ==
    /\ ConfigurationError => calls = <<>>
    /\ pc = "done" =>
          /\ (ConfigurationError /\ ~InputError) =>
                /\ response.status = 500
                /\ response.body.error = "API keys not configured"
                /\ "details" \in DOMAIN response.body
          /\ (IsErrorPayload(response) /\ response.body.error = "API keys not configured")
                => (ConfigurationError /\ ~InputError)
          /\ (IsErrorPayload(response) /\ (InputError \/ FetchError)) =>
                response.body.error \in {"Repository URL is required",
                                         "Invalid GitHub URL format", "Analysis failed"}

\* the Gemini key alone is missing and the URL is good
C19_Witness ==
    /\ pc = "done"
    /\ ~InputError
    /\ env.GITHUB_TOKEN /\ ~env.GEMINI_API_KEY
    /\ response.body.error = "API keys not configured"
    /\ calls = <<>>

\* position of a collaborator call in the order repository fetch,
\* commit-list fetch, marker check (file fetches), AI completion
CallRank(c) ==
    IF c.api = "repo" THEN 1
    ELSE IF c.api = "commits" THEN 2
    ELSE IF c.api = "gemini" THEN 4
    ELSE 3

TimesCalled(api) == Cardinality({i \in 1..Len(calls) : calls[i].api = api})

\* C20: the calls of a request are issued in the order repository fetch,
\* commit-list fetch, marker check, AI completion, each only when the one
\* before has been answered: while the handler waits, the call it waits for
\* is the last one issued and everything the earlier calls were to deliver is
\* there; the repository fetch, the commit-list fetch and the AI completion
\* are issued at most once.
C20_CallsSequentialInOrder ==
    /\ \A i, j \in 1..Len(calls) : i < j => CallRank(calls[i]) <= CallRank(calls[j])
    /\ \A api \in {"repo", "commits", "gemini"} : TimesCalled(api) <= 1
    /\ TimesCalled("gemini") = 1 => TimesCalled("commits") = 1
    /\ TimesCalled("commits") = 1 => TimesCalled("repo") = 1
    /\ (impl = "part_000" /\ TimesCalled("gemini") = 1) => TimesCalled(FirstFile) = 1
    /\ pc = "start" => calls = <<>>
    /\ pc = "await_repo" => (calls = <<Call("repo")>> /\ repoData = None)
    /\ pc = "await_commits" =>
          (calls = <<Call("repo"), Call("commits")>> /\ repoData # None /\ patterns = None)
    /\ pc = "await_badge" =>
          (calls = <<Call("repo"), Call("commits")>> /\ patterns # None /\ repoFiles = None)
    /\ pc = "await_gemini" =>
          /\ calls[Len(calls)] = Call("gemini")
          /\ patterns # None /\ aiAnalysis = None
          /\ impl = "part_000" => repoFiles # None

\* part_000 has fetched the repository, the commits, two candidate files and
\* then called Gemini
C20_Witness ==
    /\ pc = "done"
    /\ impl = "part_000"
    /\ Len(calls) = 5
    /\ <<calls[1].api, calls[2].api, calls[3].api, calls[5].api>>
         = <<"repo", "commits", FirstFile, "gemini">>
    /\ CallRank(calls[4]) = 3
    /\ IsVerdict(response)

\* the handler has ended and the last call it issued was one of the two
\* GitHub fetches: that fetch failed (a fetch that succeeds is followed by
\* another call)
EndedAtFetch(api) ==
    pc = "done" /\ calls # <<>> /\ calls[Len(calls)].api = api

\* C21: when the repository fetch or the commit-list fetch fails, by its
\* status or by throwing, the request ends with the error response
\* 'Analysis failed' whose details carry the collaborator's status or
\* message; the failed fetch was issued once, and no later call (the commit
\* fetch after a failed repository fetch, a file fetch, the AI call) is
\* issued.
C21_FetchFailureAborts ==
    /\ EndedAtFetch("repo") =>
          /\ calls = <<Call("repo")>>
          /\ repoData = None /\ patterns = None /\ repoFiles = None /\ aiReply = None
          /\ response.status = 500
          /\ response.body.error = "Analysis failed"
          /\ response.body.details \in
                {<<"Failed to fetch GitHub data:", m>> :
                    m \in {"GitHub API error (404)", "network error"}}
    /\ EndedAtFetch("commits") =>
          /\ calls = <<Call("repo"), Call("commits")>>
          /\ patterns = None /\ repoFiles = None /\ aiReply = None
          /\ response.status = 500
          /\ response.body.error = "Analysis failed"
          /\ response.body.details \in
                {<<"Failed to fetch GitHub data:", m>> :
                    m \in {"GitHub commits API error (409)", "network error"}}

\* the commit-list fetch has answered 409 after a good repository fetch
C21_Witness ==
    /\ EndedAtFetch("commits")
    /\ repoData # None
    /\ response.body.details = <<"Failed to fetch GitHub data:", "GitHub commits API error (409)">>

\* the marker check has run and found no candidate file at all
NoCandidateFileExists ==
    repoFiles # None /\ \A f \in CandidateFiles : repoFiles[f] = "notfound"

\* the marker check has run and one of its fetches or decodes threw
FileFetchThrew ==
    /\ repoFiles # None
    /\ \E i \in 1..Len(calls) :
          calls[i].api \in CandidateFiles /\ repoFiles[calls[i].api] = "throws"

\* C23: when no candidate file exists, or a file fetch or decode of the
\* marker check throws, checkBoltNewBadge gives FALSE and no error: the AI
\* call is issued after it and the request ends with a complete verdict
\* whose hasBoltNewBadge is FALSE.
C23_MarkerCheckNeverFailsRequest ==
    (NoCandidateFileExists \/ FileFetchThrew) =>
        /\ ~hasBoltNewBadge
        /\ pc \in {"await_gemini", "done"}
        /\ calls[Len(calls)] = Call("gemini")
        /\ pc = "done" =>
              /\ IsVerdict(response)
              /\ VerdictFields \subseteq DOMAIN response.body
              /\ response.body.hasBoltNewBadge = FALSE

\* the fetch of an alternative file threw; the verdict is there
C23_Witness ==
    /\ pc = "done"
    /\ FileFetchThrew
    /\ repoFiles[FirstFile] = "notfound"
    /\ IsVerdict(response)
    /\ ~response.body.hasBoltNewBadge

\* C28: with the fallback opinion of part_000, whose likelihood and
\* confidence come from the rapid-commit formula, a likelihood above 70
\* implies rapidCommits > 15 and the confidence 'high'; so a verdict built
\* from that opinion never has isLikelyAIGenerated TRUE together with the
\* confidence 'low' or 'medium'.
C28_LikelyFallbackIsHighConfidence ==
    (pc = "fallback_out" /\ impl = "part_000") =>
        /\ aiAnalysis = fallbackAnalysis(impl, repoData, patterns)
        /\ aiAnalysis.likelihood.n > Num(70) =>
              /\ patterns.rapidCommits > 15
              /\ aiAnalysis.confidence = JStr(<<"high">>)
        /\ isLikelyAIGenerated(impl, aiAnalysis, patterns) =>
              resultConfidence(impl, aiAnalysis, patterns) = JStr(<<"high">>)

\* sixteen rapid commits, all commits verified, a full page: likelihood 72
C28_Witness ==
    /\ pc = "fallback_out"
    /\ impl = "part_000"
    /\ patterns.rapidCommits = 16
    /\ aiAnalysis.likelihood.n > Num(70)
    /\ isLikelyAIGenerated(impl, aiAnalysis, patterns)
    /\ aiAnalysis.confidence = JStr(<<"high">>)

(***************************************************************************)
(* The client: the App component (App.tsx).  `app` is the component's      *)
(* state as React commits it: the updates one run of a handler makes are   *)
(* applied together.                                                       *)
(***************************************************************************)
Null == [null |-> TRUE]

\* The text of the URL field, a sequence of pieces; " " is white space.
RECURSIVE trimStart(_)
trimStart(text) ==
    IF text # <<>> /\ Head(text) = " " THEN trimStart(Tail(text)) ELSE text

RECURSIVE trimEnd(_)
trimEnd(text) ==
    IF text # <<>> /\ text[Len(text)] = " "
    THEN trimEnd(SubSeq(text, 1, Len(text) - 1))
    ELSE text

\* String.prototype.trim
trimText(text) == trimEnd(trimStart(text))

\* useState(''), useState(false), useState(null), useState(null)
InitialApp == [repoUrl |-> <<>>, isAnalyzing |-> FALSE, result |-> Null, error |-> Null]

setRepoUrl(st, v) == [st EXCEPT !.repoUrl = v]

setIsAnalyzing(st, v) == [st EXCEPT !.isAnalyzing = v]

setResult(st, v) == [st EXCEPT !.result = v]

setError(st, v) == [st EXCEPT !.error = v]

\* analyzeRepository up to the await: the state it leaves and whether the
\* function was invoked
analyzeRepositoryStart(st) ==
    IF trimText(st.repoUrl) = <<>>
    THEN [state |-> st, invoked |-> FALSE]
    ELSE [state |-> setResult(setError(setIsAnalyzing(st, TRUE), Null), Null),
          invoked |-> TRUE]

\* a JavaScript string held in the component's state
Text(pieces) == [text |-> pieces]

\* What the try block throws for an outcome of supabase.functions.invoke, as
\* the message the catch block computes; Null when nothing is thrown.
caughtMessage(o) ==
    CASE o.kind = "rejects" -> Text(<<"Unknown error occurred">>)       \* no Error thrown
      [] o.kind = "functionError" ->
            IF o.message = <<>> THEN Text(<<"Analysis failed">>) ELSE Text(o.message)
      [] o.data = Null -> Text(<<"Cannot read properties of null (reading 'error')">>)
      [] "error" \in DOMAIN o.data ->
            IF "details" \in DOMAIN o.data /\ o.data.details # <<>>
            THEN Text(o.data.details)
            ELSE Text(<<o.data.error>>)
      [] OTHER -> Null

\* setResult placed before the check of data.error
ResultSetBeforeErrorCheckMutant(st, o) ==
    LET message == caughtMessage(o)
        shown == IF o.kind = "data" /\ o.data # Null THEN setResult(st, o.data) ELSE st
    IN  setIsAnalyzing(IF message = Null THEN shown ELSE setError(shown, message), FALSE)

\* analyzeRepository from the await on: setResult(data) or the catch block's
\* setError, then setIsAnalyzing(false)
analyzeRepositoryResume(st, o) ==
    LET message == caughtMessage(o)
    IN  setIsAnalyzing(IF message = Null THEN setResult(st, o.data)
                       ELSE setError(st, message),
                       FALSE)

\* the button disabled only for an empty URL
DisabledOnlyWhenEmptyMutant(st) == trimText(st.repoUrl) = <<>>

\* disabled={isAnalyzing || !repoUrl.trim()}
buttonDisabled(st) == st.isAnalyzing \/ trimText(st.repoUrl) = <<>>

\* disabled={isAnalyzing}
inputDisabled(st) == st.isAnalyzing

(***************************************************************************)
(* What the user types and what an invocation answers.                     *)
(***************************************************************************)
GoodUrl == "https://github.com/ManojINaik/boltradar"

UrlTexts == {<<>>, <<" ">>, <<" ", " ">>, <<GoodUrl>>, <<" ", GoodUrl, " ">>, <<"boltradar">>}

\* a verdict of each variant of the function, for three commits and a
\* failed Gemini call
SampleVerdict(im) ==
    LET repo == Repo(InstantAt(0, 1))
        p == analyzeCommitPatterns(im, BurstList(3, 1, 2))
    IN  buildResult(im, <<GoodUrl>>, p, fallbackAnalysis(im, repo, p), FALSE, repo,
                    checkHackathonEligibility(im, repo))

\* { data, error } of supabase.functions.invoke, or a rejection
InvokeOutcomes ==
    {[kind |-> "data", data |-> SampleVerdict(im), message |-> <<>>] : im \in Impls}
      \cup {[kind |-> "data", data |-> r.body, message |-> <<>>] :
              r \in {ErrorResponse(400, "Invalid GitHub URL format"),
                     AnalysisFailed(<<"Failed to fetch GitHub data:", "network error">>)}}
      \cup {[kind |-> "data", data |-> Null, message |-> <<>>]}
      \cup {[kind |-> "functionError", data |-> Null, message |-> m] :
              m \in {<<>>, <<"Edge Function returned a non-2xx status code">>}}
      \cup {[kind |-> "rejects", data |-> Null, message |-> <<>>]}

(***************************************************************************)
(* Specification of the client.  invocations.started counts the analyses   *)
(* started, invocations.pending lists those not yet answered, and          *)
(* invocations.writer is the analysis whose run last set the state.        *)
(***************************************************************************)
InitClient ==
    /\ app = InitialApp
    /\ invocations = [started |-> 0, pending |-> <<>>, writer |-> 0]
    /\ pc = "client"
    /\ impl \in Impls
    /\ repoUrl = None /\ env = None /\ repoData = None /\ commits = <<>>
    /\ eligibility = None /\ patterns = None /\ repoFiles = None
    /\ hasBoltNewBadge = FALSE /\ aiReply = None /\ aiAnalysis = None
    /\ response = None /\ calls = <<>>

\* onChange of the URL field
ChangeUrl ==
    /\ ~inputDisabled(app)
    /\ \E text \in UrlTexts : app' = setRepoUrl(app, text)
    /\ UNCHANGED <<invocations, impl, pc, repoUrl, env, repoData, commits, eligibility,
                   patterns, repoFiles, hasBoltNewBadge, aiReply, aiAnalysis, response, calls>>

\* onClick of the button: analyzeRepository runs up to its await
ClickAnalyze ==
    /\ ~buttonDisabled(app)
    /\ invocations.started < MaxInvocations
    /\ LET run == analyzeRepositoryStart(app)
           id == invocations.started + 1
       IN  /\ app' = run.state
           /\ invocations' =
                IF run.invoked
                THEN [started |-> id, pending |-> Append(invocations.pending, id),
                      writer |-> id]
                ELSE invocations
    /\ UNCHANGED <<impl, pc, repoUrl, env, repoData, commits, eligibility,
                   patterns, repoFiles, hasBoltNewBadge, aiReply, aiAnalysis, response, calls>>

\* an outstanding invocation answers: analyzeRepository runs to its end
InvocationAnswers ==
    /\ \E i \in 1..Len(invocations.pending), o \in InvokeOutcomes :
          /\ app' = analyzeRepositoryResume(app, o)
          /\ invocations' =
                [invocations EXCEPT
                    !.pending = SubSeq(@, 1, i - 1) \o SubSeq(@, i + 1, Len(@)),
                    !.writer = invocations.pending[i]]
    /\ UNCHANGED <<impl, pc, repoUrl, env, repoData, commits, eligibility,
                   patterns, repoFiles, hasBoltNewBadge, aiReply, aiAnalysis, response, calls>>

NextClient ==
    \/ ChangeUrl
    \/ ClickAnalyze
    \/ InvocationAnswers

SpecClient == InitClient /\ [][NextClient]_vars

\* C29: in the client result and error are never both set; while isAnalyzing
\* is TRUE both are null; and once an invocation has been answered, by a
\* verdict, by an error payload, by a function error or by a rejection,
\* isAnalyzing is FALSE again and exactly one of result and error is set.
C29_ResultXorError ==
    /\ ~(app.result # Null /\ app.error # Null)
    /\ app.isAnalyzing => (app.result = Null /\ app.error = Null)
    /\ (invocations.started > 0 /\ invocations.pending = <<>>) =>
          /\ ~app.isAnalyzing
          /\ (app.result # Null) # (app.error # Null)

\* an error payload has been answered: its details are the error shown
C29_Witness ==
    /\ invocations.started = 1
    /\ invocations.pending = <<>>
    /\ ~app.isAnalyzing
    /\ app.result = Null
    /\ app.error = Text(<<"Failed to fetch GitHub data:", "network error">>)

\* C30: in the client at most one invocation is outstanding at any time,
\* and it is outstanding exactly while isAnalyzing is TRUE, when the URL
\* field and the button are disabled; the state is always the one set by the
\* analysis started last, never by the answer to an older one; and
\* analyzeRepository with an empty or blank URL changes nothing and invokes
\* nothing.
C30_OneInvocationAtATime ==
    /\ Len(invocations.pending) <= 1
    /\ app.isAnalyzing <=> Len(invocations.pending) = 1
    /\ app.isAnalyzing => (inputDisabled(app) /\ buttonDisabled(app))
    /\ invocations.writer = invocations.started
    /\ \A text \in UrlTexts :
          trimText(text) = <<>> =>
              analyzeRepositoryStart(setRepoUrl(app, text))
                = [state |-> setRepoUrl(app, text), invoked |-> FALSE]

\* a second analysis is running after the first was answered with a verdict
C30_Witness ==
    /\ invocations.started = 2
    /\ invocations.pending = <<2>>
    /\ app.isAnalyzing
    /\ app.result = Null

====
